---- MODULE Spec2Model ----
(***************************************************************************)
(* Model of the conversation reconciliation of cursor-chat-browser:        *)
(* fetchConversationsForWorkspace of the export route and the helpers it   *)
(* uses (safeParseTimestamp, createBubble).                                *)
(*                                                                         *)
(* JavaScript values are tagged records [k |-> kind, ...]; strings are     *)
(* tuples of one-character strings so that trim, split and slice are       *)
(* computed; numbers are two-limb integers hi * Base + lo so that the      *)
(* thresholds of the timestamp code keep their true magnitude.             *)
(***************************************************************************)
EXTENDS Integers, Sequences, FiniteSets, TLC

(***************************************************************************)
(* Bounds of the model.                                                    *)
(***************************************************************************)
MaxTabs == 2
MaxComposers == 2
MaxRecords == 2
MaxItems == 3
MaxClock == 1

(***************************************************************************)
(* JavaScript values.                                                      *)
(***************************************************************************)
Base == 10000 * 10000

Undef == [k |-> "undef"]
Str(s) == [k |-> "str", s |-> s]
Num(hi, lo) == [k |-> "num", hi |-> hi, lo |-> lo]
NaN == [k |-> "nan"]
Iso(n) == [k |-> "iso", hi |-> n.hi, lo |-> n.lo]
Small(n) == Num(0, n)

IsString(v) == v.k \in {"str", "iso"}
IsNumber(v) == v.k \in {"num", "nan"}

\* ToBoolean: undefined, "", 0 and NaN are falsy.
Truthy(v) ==
  CASE v.k = "undef" -> FALSE
    [] v.k = "str" -> v.s # <<>>
    [] v.k = "num" -> ~(v.hi = 0 /\ v.lo = 0)
    [] v.k = "nan" -> FALSE
    [] v.k = "null" -> FALSE
    [] OTHER -> TRUE

\* a || b
Or(a, b) == IF Truthy(a) THEN a ELSE b

(***************************************************************************)
(* Numbers: hi * Base + lo with 0 <= lo < Base.                            *)
(***************************************************************************)
Less(a, b) == a.hi < b.hi \/ (a.hi = b.hi /\ a.lo < b.lo)
Leq(a, b) == ~Less(b, a)
Neg(a) == IF a.lo = 0 THEN Num(0 - a.hi, 0) ELSE Num(0 - a.hi - 1, Base - a.lo)

\* n * 1000.  Every product beyond the range of Date is invalid alike, so a
\* product whose limbs would leave TLC's integers is held at the nearest value
\* beyond that range.
Times1000(n) ==
  IF n.hi > 1000000 THEN Num(1000000000, 0)
  ELSE IF n.hi < 0 - 1000000 THEN Num(0 - 1000000000, 0)
  ELSE Num(n.hi * 1000 + (n.lo \div (Base \div 1000)), (n.lo % (Base \div 1000)) * 1000)

\* 100000000000
TsThreshold == Num(1000, 0)

\* The time values a Date can hold: |ms| <= 8.64e15.
MaxDateMs == Num(86400000, 0)
ValidDate(ms) == Leq(Neg(MaxDateMs), ms) /\ Leq(ms, MaxDateMs)

\* new Date(): the instant of the wall clock at reading t.
NowMs(t) == Num(17000, t)

(***************************************************************************)
(* Strings.                                                                *)
(***************************************************************************)
WhiteSpace == {" ", "\n", "\t"}

RECURSIVE TrimLeft(_)
TrimLeft(s) ==
  IF s = <<>> THEN <<>>
  ELSE IF Head(s) \in WhiteSpace THEN TrimLeft(Tail(s)) ELSE s

RECURSIVE TrimRight(_)
TrimRight(s) ==
  IF s = <<>> THEN <<>>
  ELSE IF s[Len(s)] \in WhiteSpace THEN TrimRight(SubSeq(s, 1, Len(s) - 1)) ELSE s

\* String.prototype.trim
Trim(s) == TrimRight(TrimLeft(s))

\* s.slice(0, n)
Slice0(s, n) == SubSeq(s, 1, IF Len(s) < n THEN Len(s) ELSE n)

\* s.split(sep): the parts of s between occurrences of the character sep.
RECURSIVE Split(_, _)
Split(s, sep) ==
  IF \A i \in 1..Len(s) : s[i] # sep THEN <<s>>
  ELSE LET p == CHOOSE i \in 1..Len(s) : s[i] = sep /\ \A j \in 1..(i - 1) : s[j] # sep
       IN <<SubSeq(s, 1, p - 1)>> \o Split(SubSeq(s, p + 1, Len(s)), sep)

\* `Chat ${id.slice(0, 8)}`
ChatTitle(id) == Str(<<"C", "h", "a", "t", " ">> \o Slice0(id, 8))

(***************************************************************************)
(* safeParseTimestamp: the result is an ISO string, or "now" on the        *)
(* fallback paths; t is the reading of the clock at the call.              *)
(***************************************************************************)
\* new Date(ms).toISOString(): a RangeError on an invalid date.
RangeError == [k |-> "RangeError"]
ToISOString(ms) == IF ValidDate(ms) THEN Iso(ms) ELSE RangeError

\* Mutant: toISOString outside the try block, its RangeError is the result.
ToISOUncaught(ms, t) == ToISOString(ms)

\* toISOString inside the try block: the catch block returns the ISO form of now.
ToISOOrNow(ms, t) ==
  IF ToISOString(ms) = RangeError THEN Iso(NowMs(t)) ELSE ToISOString(ms)

\* Mutant: the threshold itself counts as milliseconds (>= in place of >).
safeParseTimestampInclusive(timestamp, t) ==
  CASE timestamp.k = "undef" -> Iso(NowMs(t))
    [] timestamp.k = "date" -> ToISOOrNow(Num(timestamp.hi, timestamp.lo), t)
    [] timestamp.k = "iso" -> Iso(Num(timestamp.hi, timestamp.lo))
    [] timestamp.k = "str" -> Iso(NowMs(t))
    [] timestamp.k = "num" ->
         LET n == Num(timestamp.hi, timestamp.lo)
         IN ToISOOrNow(IF Leq(TsThreshold, n) THEN n ELSE Times1000(n), t)
    [] timestamp.k = "nan" -> Iso(NowMs(t))
    [] OTHER -> Iso(NowMs(t))

\* Mutant: the branch for strings is missing, a string gives the ISO form of now.
safeParseTimestampNoString(timestamp, t) ==
  CASE timestamp.k = "undef" -> Iso(NowMs(t))
    [] timestamp.k = "date" -> ToISOOrNow(Num(timestamp.hi, timestamp.lo), t)
    [] timestamp.k = "iso" -> Iso(NowMs(t))
    [] timestamp.k = "str" -> Iso(NowMs(t))
    [] timestamp.k = "num" ->
         LET n == Num(timestamp.hi, timestamp.lo)
         IN ToISOOrNow(IF Less(TsThreshold, n) THEN n ELSE Times1000(n), t)
    [] timestamp.k = "nan" -> Iso(NowMs(t))
    [] OTHER -> Iso(NowMs(t))

\* The kinds of raw value: "undef" and "null" are absent, "date" is a Date,
\* "iso" is a string that new Date parses to the instant hi * Base + lo, "str"
\* is a string that it does not parse, "num" and "nan" are numbers.
safeParseTimestamp(timestamp, t) ==
  CASE timestamp.k = "undef" -> Iso(NowMs(t))
    [] timestamp.k = "date" -> ToISOOrNow(Num(timestamp.hi, timestamp.lo), t)
    [] timestamp.k = "iso" -> Iso(Num(timestamp.hi, timestamp.lo))
    [] timestamp.k = "str" -> Iso(NowMs(t))
    [] timestamp.k = "num" ->
         LET n == Num(timestamp.hi, timestamp.lo)
         IN ToISOOrNow(IF Less(TsThreshold, n) THEN n ELSE Times1000(n), t)
    [] timestamp.k = "nan" -> Iso(NowMs(t))
    [] OTHER -> Iso(NowMs(t))

\* new Date(iso).getTime()
GetTime(iso) == Num(iso.hi, iso.lo)

(***************************************************************************)
(* Map<K, V>: a function over the keys present.  The conversation map is   *)
(* kept as the sequence of its values in insertion order, because          *)
(* Map.forEach visits entries in that order.                               *)
(***************************************************************************)
EmptyMap == [x \in {} |-> Undef]
Has(m, key) == key \in DOMAIN m
Put(m, key, v) == [x \in (DOMAIN m) \cup {key} |-> IF x = key THEN v ELSE m[x]]

\* allBubblesMap.get(id) || []
GetBubbles(m, key) == IF Has(m, key) THEN m[key] ELSE <<>>

ConvHas(convs, id) == \E j \in 1..Len(convs) : convs[j].id = id
ConvIndex(convs, id) == CHOOSE j \in 1..Len(convs) : convs[j].id = id
ConvGet(convs, id) == convs[ConvIndex(convs, id)]
\* Mutant: the conversations are pushed to a list, whether or not the id is known.
ConvPush(convs, id, c) == Append(convs, c)

\* Map.set: an existing key keeps its position, a new key is appended.
ConvSet(convs, id, c) ==
  IF ConvHas(convs, id)
  THEN [convs EXCEPT ![ConvIndex(convs, id)] = c]
  ELSE Append(convs, c)

Arr(a) == [k |-> "arr", a |-> a]
IsArray(v) == v.k = "arr"

createBubble(role, content, id, originalType, originalSource) ==
  [role |-> role, content |-> content, id |-> id,
   originalType |-> originalType, originalSource |-> originalSource]

Maps(convs, bubs, hdrs) == [thrown |-> FALSE, convs |-> convs, bubs |-> bubs, hdrs |-> hdrs]
Thrown(convs, bubs, hdrs) == [thrown |-> TRUE, convs |-> convs, bubs |-> bubs, hdrs |-> hdrs]

(***************************************************************************)
(* Step 1: one legacy chat tab.                                            *)
(***************************************************************************)
LegacyRole(b) ==
  IF b.role = Str(<<"u", "s", "e", "r">>) \/ b.type = Str(<<"u", "s", "e", "r">>)
  THEN "user" ELSE "assistant"

\* b.content || b.text || ""
ResolvedContent(primary, secondary) == Or(Or(primary, secondary), Str(<<>>))

\* content.trim() on a value that is not a string is a TypeError.
TrimThrows(content) == ~IsString(content)
\* Mutant: the content is tested without trim(), so blanks count as text.
NonBlankUntrimmed(content) == content.s # <<>>

NonBlank(content) == Trim(content.s) # <<>>

RECURSIVE LegacyBubbles(_)
LegacyBubbles(raw) ==
  IF raw = <<>> THEN <<>>
  ELSE LET b == Head(raw)
           content == ResolvedContent(b.content, b.text)
       IN (IF NonBlank(content)
           THEN <<createBubble(LegacyRole(b), content.s, Or(b.id, b.bubbleId),
                               b.type, "chatResult")>>
           ELSE <<>>) \o LegacyBubbles(Tail(raw))

LegacyThrows(raw) ==
  \E j \in 1..Len(raw) : TrimThrows(ResolvedContent(raw[j].content, raw[j].text))

\* tab.chatTitle?.split("\n")[0] || `Chat ${tab.tabId.slice(0, 8)}`
TabTitle(tab) ==
  Or(IF tab.chatTitle.k = "undef" THEN Undef ELSE Str(Split(tab.chatTitle.s, "\n")[1]),
     ChatTitle(tab.tabId))

TabStep(convs, bubs, hdrs, tab, t) ==
  IF LegacyThrows(tab.bubbles) THEN Thrown(convs, bubs, hdrs)
  ELSE Maps(ConvSet(convs, tab.tabId,
                    [id |-> tab.tabId,
                     title |-> TabTitle(tab),
                     summary |-> Undef,
                     lastUpdatedAt |-> safeParseTimestamp(tab.lastSendTime, t),
                     createdAt |-> safeParseTimestamp(tab.lastSendTime, t)]),
            Put(bubs, tab.tabId, LegacyBubbles(tab.bubbles)),
            hdrs)

(***************************************************************************)
(* Step 2: one composer body.                                              *)
(***************************************************************************)
ComposerRole(msg) ==
  IF msg.role = Str(<<"u", "s", "e", "r">>) \/ msg.type = Small(1)
  THEN "user" ELSE "assistant"

RECURSIVE ComposerBubbles(_)
ComposerBubbles(msgs) ==
  IF msgs = <<>> THEN <<>>
  ELSE LET msg == Head(msgs)
           content == ResolvedContent(msg.content, msg.text)
       IN (IF NonBlank(content)
           THEN <<createBubble(ComposerRole(msg), content.s, msg.id, msg.type,
                               "composerMessage")>>
           ELSE <<>>) \o ComposerBubbles(Tail(msgs))

\* composer.messages || composer.conversation
MessagesSource(composer) == Or(composer.messages, composer.conversation)

ComposerThrows(composer) ==
  LET src == MessagesSource(composer)
  IN Truthy(src) /\ IsArray(src) /\
     \E j \in 1..Len(src.a) : TrimThrows(ResolvedContent(src.a[j].content, src.a[j].text))

\* orderMap.set(header.bubbleId, index) for each header: the last index wins.
OrderMap(headers) ==
  [id \in {headers[j].bubbleId : j \in 1..Len(headers)} |->
     (CHOOSE j \in 1..Len(headers) :
        headers[j].bubbleId = id /\ \A m \in (j + 1)..Len(headers) : headers[m].bubbleId # id) - 1]

\* composer.fullConversationHeadersOnly?.length
HasHeaders(composer) ==
  IsArray(composer.fullConversationHeadersOnly) /\ composer.fullConversationHeadersOnly.a # <<>>

\* Mutant: the fields of the existing record win over those of the composer.
MergedConversationKeeping(existingConv, composer, t) ==
  [id |-> existingConv.id,
   title |-> Or(existingConv.title, composer.name),
   summary |-> Or(existingConv.summary, composer.summary),
   lastUpdatedAt |-> safeParseTimestamp(
       Or(existingConv.lastUpdatedAt, Or(composer.lastUpdatedAt, composer.createdAt)), t),
   createdAt |-> safeParseTimestamp(Or(existingConv.createdAt, composer.createdAt), t)]

\* Mutant: the fields of the composer are assigned whether or not they are there.
MergedConversationOverwriting(existingConv, composer, t) ==
  [id |-> existingConv.id,
   title |-> composer.name,
   summary |-> composer.summary,
   lastUpdatedAt |-> safeParseTimestamp(Or(composer.lastUpdatedAt, composer.createdAt), t),
   createdAt |-> safeParseTimestamp(composer.createdAt, t)]

MergedConversation(existingConv, composer, t) ==
  [id |-> existingConv.id,
   title |-> Or(composer.name, existingConv.title),
   summary |-> Or(composer.summary, existingConv.summary),
   lastUpdatedAt |-> safeParseTimestamp(
       Or(Or(composer.lastUpdatedAt, composer.createdAt), existingConv.lastUpdatedAt), t),
   createdAt |-> safeParseTimestamp(Or(composer.createdAt, existingConv.createdAt), t)]

NewComposerConversation(composer, t) ==
  [id |-> composer.composerId,
   title |-> Or(composer.name, ChatTitle(composer.composerId)),
   summary |-> Or(composer.summary, composer.name),
   lastUpdatedAt |-> safeParseTimestamp(Or(composer.lastUpdatedAt, composer.createdAt), t),
   createdAt |-> safeParseTimestamp(Or(composer.createdAt, composer.lastUpdatedAt), t)]

ComposerStep(convs, bubs, hdrs, composer, t) ==
  LET composerId == composer.composerId
      existingBubbles == GetBubbles(bubs, composerId)
      hdrs2 == IF HasHeaders(composer)
               THEN Put(hdrs, composerId, OrderMap(composer.fullConversationHeadersOnly.a))
               ELSE hdrs
      src == MessagesSource(composer)
      staged == IF Truthy(src) /\ IsArray(src) THEN ComposerBubbles(src.a) ELSE <<>>
  IN IF ComposerThrows(composer) THEN Thrown(convs, bubs, hdrs2)
     ELSE Maps(IF ConvHas(convs, composerId)
               THEN ConvSet(convs, composerId,
                            MergedConversation(ConvGet(convs, composerId), composer, t))
               ELSE ConvSet(convs, composerId, NewComposerConversation(composer, t)),
               Put(bubs, composerId, existingBubbles \o staged),
               hdrs2)

(***************************************************************************)
(* Step 3: one record of the global bubble scan.  rec.key is the key after *)
(* its "bubbleId:" prefix (the scan selects keys LIKE 'bubbleId:%');       *)
(* rec.value is the stored text: unparseable, the JSON null, or an object. *)
(***************************************************************************)
\* rawBubble.key.split(":")
KeyParts(rec) == <<<<"b", "u", "b", "b", "l", "e", "I", "d">>>> \o Split(rec.key, ":")

\* keyParts[1], the composer id embedded in the key
KeyComposerId(rec) == KeyParts(rec)[2]

\* keyParts[2] (undefined when the key has two parts only)
KeyBubbleId(rec) == IF Len(KeyParts(rec)) > 2 THEN Str(KeyParts(rec)[3]) ELSE Undef

\* JSON.parse(rawBubble.value) throws
ParseThrows(rec) == rec.value.k = "bad"

GlobalRole(bubbleData) ==
  IF bubbleData.type = Small(1) THEN "user"
  ELSE IF bubbleData.type = Small(0) \/ bubbleData.type = Small(2) THEN "assistant"
  ELSE "assistant"

\* bubbleData.text || bubbleData.richText || ""
TextContent(bubbleData) == ResolvedContent(bubbleData.text, bubbleData.richText)

\* Mutant: the membership test is left out.
AdmittedAlways(rec, ids) == TRUE

Admitted(rec, ids) == KeyComposerId(rec) \in ids

\* The record raises inside the per-record try block: the parse fails, or the
\* parsed value is null (bubbleData.type), or the text is not a string (trim).
RecordThrows(rec, ids) ==
  \/ ParseThrows(rec)
  \/ /\ Len(KeyParts(rec)) > 1
     /\ Admitted(rec, ids)
     /\ \/ rec.value.k = "null"
        \/ TrimThrows(TextContent(rec.value))

\* allComposers.find((c) => c.composerId === composerId)
FindMeta(allComposers, composerId) ==
  IF \E j \in 1..Len(allComposers) : allComposers[j].composerId = composerId
  THEN allComposers[CHOOSE j \in 1..Len(allComposers) :
                      /\ allComposers[j].composerId = composerId
                      /\ \A m \in 1..(j - 1) : allComposers[m].composerId # composerId]
  ELSE [composerId |-> composerId, name |-> Undef, createdAt |-> Undef, lastUpdatedAt |-> Undef]

\* Mutant: the record gets the synthetic defaults, whatever the index holds.
NewGlobalConversationSynthetic(composerId, composerMeta, t) ==
  [id |-> composerId,
   title |-> ChatTitle(composerId),
   summary |-> Undef,
   lastUpdatedAt |-> safeParseTimestamp(Undef, t),
   createdAt |-> safeParseTimestamp(Undef, t)]

NewGlobalConversation(composerId, composerMeta, t) ==
  [id |-> composerId,
   title |-> Or(composerMeta.name, ChatTitle(composerId)),
   summary |-> Undef,
   lastUpdatedAt |-> safeParseTimestamp(Or(composerMeta.lastUpdatedAt, Undef), t),
   createdAt |-> safeParseTimestamp(Or(composerMeta.createdAt, Undef), t)]

RefreshedConversation(conv, composerMeta, t) ==
  IF Truthy(composerMeta.lastUpdatedAt)
  THEN [conv EXCEPT !.lastUpdatedAt = safeParseTimestamp(composerMeta.lastUpdatedAt, t)]
  ELSE conv

GlobalStep(convs, bubs, hdrs, ids, allComposers, rec, t) ==
  IF RecordThrows(rec, ids) THEN Maps(convs, bubs, hdrs)
  ELSE IF ~(Len(KeyParts(rec)) > 1) THEN Maps(convs, bubs, hdrs)
  ELSE IF ~Admitted(rec, ids) THEN Maps(convs, bubs, hdrs)
  ELSE LET composerId == KeyComposerId(rec)
           bubbleData == rec.value
           textContent == TextContent(bubbleData)
           composerMeta == FindMeta(allComposers, composerId)
       IN IF ~NonBlank(textContent) THEN Maps(convs, bubs, hdrs)
          ELSE Maps(IF ~ConvHas(convs, composerId)
                    THEN ConvSet(convs, composerId,
                                 NewGlobalConversation(composerId, composerMeta, t))
                    ELSE ConvSet(convs, composerId,
                                 RefreshedConversation(ConvGet(convs, composerId),
                                                       composerMeta, t)),
                    Put(bubs, composerId,
                        Append(GetBubbles(bubs, composerId),
                               createBubble(GlobalRole(bubbleData), textContent.s,
                                            Or(bubbleData.bubbleId, KeyBubbleId(rec)),
                                            bubbleData.type, "globalBubble"))),
                    hdrs)

(***************************************************************************)
(* Consolidation: deduplicate, order by the header map, drop empty         *)
(* conversations, order the list by lastUpdatedAt.                         *)
(***************************************************************************)
\* Mutant: the duplicate test compares the ids too.
FindIndexById(self, bubble) ==
  CHOOSE j \in 1..Len(self) :
    /\ self[j].content = bubble.content /\ self[j].role = bubble.role
    /\ self[j].id = bubble.id
    /\ \A m \in 1..(j - 1) :
         ~(self[m].content = bubble.content /\ self[m].role = bubble.role
           /\ self[m].id = bubble.id)

\* self.findIndex((b) => b.content === bubble.content && b.role === bubble.role)
FindIndex(self, bubble) ==
  CHOOSE j \in 1..Len(self) :
    /\ self[j].content = bubble.content /\ self[j].role = bubble.role
    /\ \A m \in 1..(j - 1) : ~(self[m].content = bubble.content /\ self[m].role = bubble.role)

RECURSIVE FilterFrom(_, _)
FilterFrom(self, index) ==
  IF index > Len(self) THEN <<>>
  ELSE (IF index = FindIndex(self, self[index]) THEN <<self[index]>> ELSE <<>>)
       \o FilterFrom(self, index + 1)

\* Mutant: of the messages with one (role, content) pair the last is kept.
UniqueBubblesLast(consolidatedBubbles) ==
  LET self == consolidatedBubbles
      kept[i \in 0..Len(self)] ==
        IF i = 0 THEN <<>>
        ELSE kept[i - 1] \o
             (IF \E j \in (i + 1)..Len(self) :
                   self[j].content = self[i].content /\ self[j].role = self[i].role
              THEN <<>> ELSE <<self[i]>>)
  IN kept[Len(self)]

UniqueBubbles(consolidatedBubbles) == FilterFrom(consolidatedBubbles, 1)

\* headerMap.get(a.id || ""): the keys of the header map are strings.
HintKey(bubble) == Or(bubble.id, Str(<<>>))
HasHint(headerMap, bubble) == HintKey(bubble).k = "str" /\ Has(headerMap, HintKey(bubble).s)
Hint(headerMap, bubble) == headerMap[HintKey(bubble).s]

\* Mutant: the comparator orders two hinted messages and nothing else.
CompareHintedOnly(headerMap, a, b) ==
  IF HasHint(headerMap, a) /\ HasHint(headerMap, b)
  THEN Hint(headerMap, a) - Hint(headerMap, b)
  ELSE 0

\* The comparator handed to uniqueBubbles.sort: negative, zero or positive.
CompareBubbles(headerMap, a, b) ==
  IF HasHint(headerMap, a) /\ HasHint(headerMap, b)
  THEN Hint(headerMap, a) - Hint(headerMap, b)
  ELSE IF HasHint(headerMap, a) THEN 0 - 1
  ELSE IF HasHint(headerMap, b) THEN 1
  ELSE 0

\* Array.prototype.sort is stable: x goes before the first element it is
\* strictly less than.
RECURSIVE InsertBubble(_, _, _)
InsertBubble(headerMap, sorted, x) ==
  IF sorted = <<>> THEN <<x>>
  ELSE IF CompareBubbles(headerMap, x, Head(sorted)) < 0 THEN <<x>> \o sorted
  ELSE <<Head(sorted)>> \o InsertBubble(headerMap, Tail(sorted), x)

RECURSIVE SortBubblesFrom(_, _, _)
SortBubblesFrom(headerMap, bubbles, sorted) ==
  IF bubbles = <<>> THEN sorted
  ELSE SortBubblesFrom(headerMap, Tail(bubbles), InsertBubble(headerMap, sorted, Head(bubbles)))

SortBubbles(headerMap, bubbles) == SortBubblesFrom(headerMap, bubbles, <<>>)

\* Mutant: the staged messages are sorted by their hints before the
\* duplicates are dropped.
FinalMessagesSortFirst(bubs, hdrs, id) ==
  LET consolidatedBubbles == GetBubbles(bubs, id)
  IN IF Has(hdrs, id) /\ DOMAIN hdrs[id] # {}
     THEN UniqueBubbles(SortBubbles(hdrs[id], consolidatedBubbles))
     ELSE UniqueBubbles(consolidatedBubbles)

\* The final message list of one conversation.
FinalMessages(bubs, hdrs, id) ==
  LET uniqueBubbles == UniqueBubbles(GetBubbles(bubs, id))
  IN IF Has(hdrs, id) /\ DOMAIN hdrs[id] # {}
     THEN SortBubbles(hdrs[id], uniqueBubbles)
     ELSE uniqueBubbles

\* Mutant: every conversation record is pushed, with or without messages.
RECURSIVE ConversationsListAll(_, _, _)
ConversationsListAll(convs, bubs, hdrs) ==
  IF convs = <<>> THEN <<>>
  ELSE LET tempConv == Head(convs)
       IN <<[id |-> tempConv.id, name |-> tempConv.title,
             summary |-> tempConv.summary,
             messages |-> FinalMessages(bubs, hdrs, tempConv.id),
             createdAt |-> tempConv.createdAt,
             lastUpdatedAt |-> tempConv.lastUpdatedAt]>>
            \o ConversationsListAll(Tail(convs), bubs, hdrs)

RECURSIVE ConversationsList(_, _, _)
ConversationsList(convs, bubs, hdrs) ==
  IF convs = <<>> THEN <<>>
  ELSE LET tempConv == Head(convs)
           messages == FinalMessages(bubs, hdrs, tempConv.id)
       IN (IF Len(messages) > 0
           THEN <<[id |-> tempConv.id, name |-> tempConv.title,
                   summary |-> tempConv.summary, messages |-> messages,
                   createdAt |-> tempConv.createdAt,
                   lastUpdatedAt |-> tempConv.lastUpdatedAt]>>
           ELSE <<>>) \o ConversationsList(Tail(convs), bubs, hdrs)

\* finalConversationsList.sort: b before a when b.lastUpdatedAt is later.
RECURSIVE InsertConversation(_, _)
InsertConversation(sorted, x) ==
  IF sorted = <<>> THEN <<x>>
  ELSE IF Less(GetTime(Head(sorted).lastUpdatedAt), GetTime(x.lastUpdatedAt))
       THEN <<x>> \o sorted
       ELSE <<Head(sorted)>> \o InsertConversation(Tail(sorted), x)

RECURSIVE SortConversationsFrom(_, _)
SortConversationsFrom(list, sorted) ==
  IF list = <<>> THEN sorted
  ELSE SortConversationsFrom(Tail(list), InsertConversation(sorted, Head(list)))

\* Mutant: the list is returned in the order of the conversation map.
SortConversationsNot(list) == list

SortConversations(list) == SortConversationsFrom(list, <<>>)

FinalConversationsList(convs, bubs, hdrs) ==
  SortConversations(ConversationsList(convs, bubs, hdrs))

(***************************************************************************)
(* The stores a run reads.  A blob of the workspace store is absent, the   *)
(* empty string, text that is not JSON, or JSON.                           *)
(***************************************************************************)
T1 == <<"t", "1">>
C1 == <<"c", "1">>
C2 == <<"c", "2">>

User == Str(<<"u", "s", "e", "r">>)
Assistant == Str(<<"a", "s", "s", "i", "s", "t", "a", "n", "t">>)

RawBubble(role, type, content, text, id, bubbleId) ==
  [role |-> role, type |-> type, content |-> content, text |-> text,
   id |-> id, bubbleId |-> bubbleId]

RawTab(tabId, chatTitle, lastSendTime, bubbles) ==
  [tabId |-> tabId, chatTitle |-> chatTitle, lastSendTime |-> lastSendTime,
   bubbles |-> bubbles]

TabUniverse ==
  { RawTab(T1, Str(<<"A", "\n", "B">>), Small(5),
           << RawBubble(User, Undef, Str(<<"a">>), Undef, Str(<<"m", "1">>), Undef),
              RawBubble(Undef, User, Undef, Str(<<"a">>), Undef, Str(<<"m", "2">>)) >>),
    RawTab(T1, Undef, Small(7),
           << RawBubble(Assistant, Undef, Str(<<"b">>), Undef, Str(<<"m", "3">>), Undef),
              RawBubble(Undef, Undef, Str(<<" ">>), Undef, Undef, Undef) >>),
    RawTab(C1, Str(<<"A">>), Small(5),
           << RawBubble(User, Undef, Str(<<"a">>), Undef, Str(<<"m", "1">>), Undef) >>) }

ComposerMeta(composerId, name, createdAt, lastUpdatedAt) ==
  [composerId |-> composerId, name |-> name, createdAt |-> createdAt,
   lastUpdatedAt |-> lastUpdatedAt]

MetaUniverse ==
  { ComposerMeta(C1, Str(<<"N">>), Small(3), Small(9)),
    ComposerMeta(C1, Undef, Undef, Undef),
    ComposerMeta(C1, Str(<<>>), Small(6), Small(0)) }

ComposerMessage(role, type, content, text, id) ==
  [role |-> role, type |-> type, content |-> content, text |-> text, id |-> id]

Header(bubbleId) == [bubbleId |-> bubbleId]

ComposerInstance(composerId, name, createdAt, lastUpdatedAt, messages, conversation, headers, summary) ==
  [k |-> "obj", composerId |-> composerId, name |-> name, createdAt |-> createdAt,
   lastUpdatedAt |-> lastUpdatedAt, messages |-> messages,
   conversation |-> conversation, fullConversationHeadersOnly |-> headers,
   summary |-> summary]

BodyRow(key, value) == [key |-> key, value |-> value]

BodyUniverse ==
  { BodyRow(C1, ComposerInstance(C1, Str(<<"M">>), Small(4), Undef,
       Arr(<< ComposerMessage(User, Undef, Str(<<"a">>), Undef, Str(<<"m", "1">>)),
              ComposerMessage(Undef, Small(2), Undef, Str(<<"b">>), Str(<<"m", "2">>)),
              ComposerMessage(Undef, Small(1), Str(<<"b">>), Undef, Str(<<"m", "3">>)) >>),
       Undef,
       Arr(<< Header(<<"m", "3">>), Header(<<"m", "2">>), Header(<<"b", "1">>) >>),
       Str(<<"S">>))),
    BodyRow(C1, ComposerInstance(C1, Undef, Undef, Undef,
       Arr(<<>>),
       Arr(<< ComposerMessage(User, Undef, Str(<<"a">>), Undef, Undef) >>),
       Undef, Undef)),
    BodyRow(C1, ComposerInstance(C2, Str(<<"X">>), Undef, Small(8),
       Undef,
       Arr(<< ComposerMessage(Undef, Undef, Str(<<" ">>), Str(<<"c">>), Undef) >>),
       Arr(<< Header(<<"b", "1">>) >>),
       Undef)),
    BodyRow(C1, ComposerInstance(C1, Str(<<>>), Small(6), Small(0),
       Undef, Undef, Undef, Undef)),
    BodyRow(C1, [k |-> "bad"]),
    BodyRow(C1, ComposerInstance(C2, Str(<<"X">>), Undef, Small(8),
       Arr(<< ComposerMessage(User, Undef, Str(<<"z">>), Undef, Undef) >>),
       Undef, Undef, Undef)),
    BodyRow(C2, ComposerInstance(C2, Str(<<"Y">>), Small(2), Small(6),
       Arr(<< ComposerMessage(User, Undef, Str(<<"y">>), Undef, Undef) >>),
       Undef, Undef, Undef)) }

BubbleData(type, text, richText, bubbleId) ==
  [k |-> "obj", type |-> type, text |-> text, richText |-> richText,
   bubbleId |-> bubbleId]

BubbleRow(key, value) == [key |-> key, value |-> value]

RecordUniverse ==
  { BubbleRow(<<"c", "1", ":", "b", "1">>,
              BubbleData(Small(1), Str(<<"a">>), Undef, Undef)),
    BubbleRow(<<"c", "1", ":", "b", "2">>,
              BubbleData(Small(0), Undef, Str(<<"b">>), Str(<<"m", "3">>))),
    BubbleRow(<<"c", "2", ":", "b", "3">>,
              BubbleData(Small(1), Str(<<"z">>), Undef, Undef)),
    BubbleRow(<<"c", "1", ":", "b", "4">>, [k |-> "bad"]),
    BubbleRow(<<"c", "1", ":", "b", "5">>, [k |-> "null"]),
    BubbleRow(<<"c", "1", ":", "b", "7">>,
              BubbleData(Small(2), Str(<<" ">>), Undef, Undef)) }

SeqsUpTo(S, n) == UNION {[1..m -> S] : m \in 0..n}

DistinctKeys(rows) ==
  \A a, b \in 1..Len(rows) : a # b => rows[a].key # rows[b].key

None == [k |-> "none"]
Empty == [k |-> "empty"]
Bad == [k |-> "bad"]

ChatBlobs ==
  {None, Empty, Bad} \cup {[k |-> "json", tabs |-> ts] : ts \in SeqsUpTo(TabUniverse, MaxTabs)}

MetaBlobs ==
  {None, Empty, Bad}
    \cup {[k |-> "json", allComposers |-> cs] : cs \in SeqsUpTo(MetaUniverse, MaxComposers)}

WsStores ==
  {[exists |-> FALSE, chat |-> None, meta |-> None]}
    \cup {[exists |-> TRUE, chat |-> c, meta |-> m] : c \in ChatBlobs, m \in MetaBlobs}

GlobalStores ==
  {[exists |-> FALSE, bodies |-> <<>>, bubbles |-> <<>>]}
    \cup {[exists |-> TRUE, bodies |-> bs, bubbles |-> rs] :
            bs \in {t \in SeqsUpTo(BodyUniverse, MaxComposers) : DistinctKeys(t)},
            rs \in SeqsUpTo(RecordUniverse, MaxRecords)}

BlobItems(blob, field) == IF blob.k = "json" THEN Len(blob[field]) ELSE 0

\* The number of items (tabs, index entries, bodies, bubble records) stored.
Items(ws, gs) ==
  BlobItems(ws.chat, "tabs") + BlobItems(ws.meta, "allComposers")
    + Len(gs.bodies) + Len(gs.bubbles)

(***************************************************************************)
(* One run of fetchConversationsForWorkspace.                              *)
(***************************************************************************)
VARIABLES
  wsStore,                   \* the workspace store file state.vscdb
  globalStore,               \* the global store file
  pc,                        \* the position of the run
  db, globalDb,              \* the two handles: "null", "open", "closed", "closeFailed"
  chatResult,                \* the chat-data blob read
  composerMetadataResult,    \* the composer-metadata blob read
  allConversationsMap,
  allBubblesMap,
  headerOrderMap,
  workspaceComposerIds,
  tabs,                      \* chatData.tabs || []
  composerMetadataForGlobal, \* allComposers of the parsed index
  parsedComposers,
  globalRawBubbles,
  idx,                       \* the position of the loop in progress
  result,                    \* the list handed to return
  outcome,                   \* "pending", "returned" or "raised"
  log,                       \* what went to console.warn / console.error
  clock                      \* the reading of the wall clock

\* Calls of safeParseTimestamp on one raw value (specification SpecTs).
VARIABLES
  tsRaw,                     \* the raw timestamp value
  tsPc,                      \* how far the calls have gone
  tsFirst,                   \* the result of the first call on tsRaw
  tsSecond,                  \* the result of the second call on tsRaw
  tsAgain,                   \* the result of the call on tsFirst
  tsConv,                    \* a conversation record whose timestamps come from tsRaw
  tsClock                    \* the reading of the wall clock

\* One export request, POST (specification SpecExport).
VARIABLES
  env,                       \* process.env.WORKSPACE_PATH is set
  body,                      \* the body of the request
  disk,                      \* the entries of the workspace directory
  exportPc,                  \* the position of the handler
  mode,                      \* the branch taken: "selected", "single" or "all"
  idsToExport,               \* the ids, or directory entries, looped over
  pos,                       \* the position of the loop
  foundAnyConversations,
  zip,                       \* folder name -> file name -> markdown
  response,                  \* the response of the handler
  pastHandles                \* the handles of the runs that have ended

\* Two runs in one process (specification SpecPair).
VARIABLES
  parked,                    \* the locals of the run that is suspended at an await
  active                     \* the run that is executing: 1 or 2

\* One request of the query route, GET (specification SpecRoutes).
VARIABLES
  getResponse,               \* the response of GET
  getIoOk                    \* every open and query of the request succeeded

runVars ==
  <<wsStore, globalStore, pc, db, globalDb, chatResult, composerMetadataResult,
    allConversationsMap, allBubblesMap, headerOrderMap, workspaceComposerIds,
    tabs, composerMetadataForGlobal, parsedComposers, globalRawBubbles, idx,
    result, outcome, log, clock>>

tsVars == <<tsRaw, tsPc, tsFirst, tsSecond, tsAgain, tsConv, tsClock>>

exportVars ==
  <<env, body, disk, exportPc, mode, idsToExport, pos, foundAnyConversations, zip,
    response, pastHandles>>

pairVars == <<parked, active>>

getVars == <<getResponse, getIoOk>>

\* What a step of a run leaves alone.
others == <<tsVars, exportVars, pairVars, getVars>>

vars == <<runVars, others>>

stores == <<wsStore, globalStore>>
handles == <<db, globalDb>>
reads == <<chatResult, composerMetadataResult>>
maps == <<allConversationsMap, allBubblesMap, headerOrderMap>>
lists == <<tabs, composerMetadataForGlobal, parsedComposers, globalRawBubbles>>

\* The global store is read only by a run that found a composer-metadata blob
\* with a value; for the other runs one populated global store stands for all.
SampleGlobalStore ==
  [exists |-> TRUE,
   bodies |-> <<>>,
   bubbles |-> <<BubbleRow(<<"c", "1", ":", "b", "1">>,
                           BubbleData(Small(1), Str(<<"a">>), Undef, Undef))>>]

\* The locals of fetchConversationsForWorkspace at its entry.
FreshRun ==
  /\ pc = "start"
  /\ db = "null"
  /\ globalDb = "null"
  /\ chatResult = None
  /\ composerMetadataResult = None
  /\ allConversationsMap = <<>>
  /\ allBubblesMap = EmptyMap
  /\ headerOrderMap = EmptyMap
  /\ workspaceComposerIds = {}
  /\ tabs = <<>>
  /\ composerMetadataForGlobal = <<>>
  /\ parsedComposers = <<>>
  /\ globalRawBubbles = <<>>
  /\ idx = 0
  /\ result = <<>>
  /\ outcome = "pending"

\* No call of safeParseTimestamp outside a run has been made.
TsIdle ==
  /\ tsRaw = Undef
  /\ tsPc = "idle"
  /\ tsFirst = Undef
  /\ tsSecond = Undef
  /\ tsAgain = Undef
  /\ tsConv = Undef
  /\ tsClock = 0

\* No export request is being handled.
ExportIdle ==
  /\ env = TRUE
  /\ body = Undef
  /\ disk = <<>>
  /\ exportPc = "idle"
  /\ mode = "none"
  /\ idsToExport = <<>>
  /\ pos = 0
  /\ foundAnyConversations = FALSE
  /\ zip = EmptyMap
  /\ response = Undef
  /\ pastHandles = <<>>

\* No second run is in the process.
PairIdle ==
  /\ parked = Undef
  /\ active = 1

\* No request of the query route is being handled.
GetIdle ==
  /\ getResponse = Undef
  /\ getIoOk = TRUE

Init ==
  /\ TsIdle
  /\ ExportIdle
  /\ PairIdle
  /\ GetIdle
  /\ wsStore \in WsStores
  /\ globalStore \in GlobalStores
  /\ Items(wsStore, globalStore) <= MaxItems
  /\ ~(wsStore.exists /\ wsStore.meta.k \in {"bad", "json"})
       => globalStore = SampleGlobalStore
  /\ FreshRun
  /\ log = {}
  /\ clock = 0

\* result && result.value
HasValue(blob) == blob.k \in {"bad", "json"}

\* The catch block of the run: log, return [], then the finally block.
Catch(what) ==
  /\ result' = <<>>
  /\ log' = log \cup {"error:" \o what}
  /\ pc' = "closeDb"
  /\ idx' = 0

\* if (!existsSync(dbPath)) return [];
WorkspaceMissing ==
  /\ pc = "start"
  /\ ~wsStore.exists
  /\ result' = <<>>
  /\ log' = log \cup {"warn:notFound"}
  /\ pc' = "closeDb"
  /\ UNCHANGED <<stores, handles, reads, maps, workspaceComposerIds, lists, idx,
                 outcome, clock>>
  /\ UNCHANGED others

\* db = await open(...)
OpenWorkspace ==
  /\ pc = "start"
  /\ wsStore.exists
  /\ \E ok \in BOOLEAN :
       IF ok
       THEN /\ db' = "open"
            /\ pc' = "getChat"
            /\ UNCHANGED <<result, log, idx>>
       ELSE /\ Catch("open")
            /\ UNCHANGED db
  /\ UNCHANGED <<stores, globalDb, reads, maps, workspaceComposerIds, lists,
                 outcome, clock>>
  /\ UNCHANGED others

\* const chatResult = await db.get(...)
GetChat ==
  /\ pc = "getChat"
  /\ \E ok \in BOOLEAN :
       IF ok
       THEN /\ chatResult' = wsStore.chat
            /\ pc' = "getMeta"
            /\ UNCHANGED <<result, log, idx>>
       ELSE /\ Catch("get")
            /\ UNCHANGED chatResult
  /\ UNCHANGED <<stores, handles, composerMetadataResult, maps,
                 workspaceComposerIds, lists, outcome, clock>>
  /\ UNCHANGED others

\* const composerMetadataResult = await db.get(...)
GetMeta ==
  /\ pc = "getMeta"
  /\ \E ok \in BOOLEAN :
       IF ok
       THEN /\ composerMetadataResult' = wsStore.meta
            /\ pc' = "parseChat"
            /\ UNCHANGED <<result, log, idx>>
       ELSE /\ Catch("get")
            /\ UNCHANGED composerMetadataResult
  /\ UNCHANGED <<stores, handles, chatResult, maps, workspaceComposerIds, lists,
                 outcome, clock>>
  /\ UNCHANGED others

\* if (chatResult && chatResult.value) { const chatData = JSON.parse(...) ...
ParseChat ==
  /\ pc = "parseChat"
  /\ IF ~HasValue(chatResult)
     THEN /\ pc' = "openGlobal"
          /\ UNCHANGED <<tabs, result, log, idx>>
     ELSE IF chatResult.k = "bad"
     THEN /\ Catch("parse")
          /\ UNCHANGED tabs
     ELSE /\ tabs' = chatResult.tabs
          /\ idx' = 1
          /\ pc' = IF chatResult.tabs = <<>> THEN "openGlobal" ELSE "tabs"
          /\ UNCHANGED <<result, log>>
  /\ UNCHANGED <<stores, handles, reads, maps, workspaceComposerIds,
                 composerMetadataForGlobal, parsedComposers, globalRawBubbles,
                 outcome, clock>>
  /\ UNCHANGED others

\* One iteration of (chatData.tabs || []).forEach((tab) => ...)
ProcessTab ==
  /\ pc = "tabs"
  /\ LET r == TabStep(allConversationsMap, allBubblesMap, headerOrderMap, tabs[idx], clock)
     IN IF r.thrown
        THEN /\ Catch("tab")
             /\ UNCHANGED maps
        ELSE /\ allConversationsMap' = r.convs
             /\ allBubblesMap' = r.bubs
             /\ headerOrderMap' = r.hdrs
             /\ idx' = idx + 1
             /\ pc' = IF idx = Len(tabs) THEN "openGlobal" ELSE "tabs"
             /\ UNCHANGED <<result, log>>
  /\ UNCHANGED <<stores, handles, reads, workspaceComposerIds, lists, outcome, clock>>
  /\ UNCHANGED others

\* Mutant: a failure to open the global store reaches the catch block of the run.
OpenGlobalUncaught ==
  /\ pc = "openGlobal"
  /\ IF ~HasValue(composerMetadataResult) \/ ~globalStore.exists
     THEN /\ pc' = "finalize"
          /\ UNCHANGED <<globalDb, log, result, idx>>
     ELSE \E ok \in BOOLEAN :
            IF ok
            THEN /\ globalDb' = "open"
                 /\ pc' = "parseMeta"
                 /\ UNCHANGED <<log, result, idx>>
            ELSE /\ result' = <<>>
                 /\ log' = log \cup {"warn:globalOpen", "error:globalOpen"}
                 /\ pc' = "closeDb"
                 /\ idx' = 0
                 /\ UNCHANGED globalDb
  /\ UNCHANGED <<stores, db, reads, maps, workspaceComposerIds, lists, outcome, clock>>
  /\ UNCHANGED others

\* if (composerMetadataResult && composerMetadataResult.value) {
\*   if (existsSync(globalDbPath)) { try { globalDb = await open(...) } catch ... }
OpenGlobal ==
  /\ pc = "openGlobal"
  /\ IF ~HasValue(composerMetadataResult)
     THEN /\ pc' = "finalize"
          /\ UNCHANGED <<globalDb, log>>
     ELSE IF ~globalStore.exists
     THEN /\ pc' = "finalize"
          /\ UNCHANGED <<globalDb, log>>
     ELSE \E ok \in BOOLEAN :
            IF ok
            THEN /\ globalDb' = "open"
                 /\ pc' = "parseMeta"
                 /\ UNCHANGED log
            ELSE /\ log' = log \cup {"warn:globalOpen"}
                 /\ pc' = "finalize"
                 /\ UNCHANGED globalDb
  /\ UNCHANGED <<stores, db, reads, maps, workspaceComposerIds, lists, idx, result,
                 outcome, clock>>
  /\ UNCHANGED others

\* Mutant: a composer-metadata blob that does not parse is taken as an empty index.
ParseMetaGuarded ==
  /\ pc = "parseMeta"
  /\ LET allComposers == IF composerMetadataResult.k = "bad" THEN <<>>
                         ELSE composerMetadataResult.allComposers
     IN /\ composerMetadataForGlobal' = allComposers
        /\ workspaceComposerIds' =
             {allComposers[j].composerId : j \in 1..Len(allComposers)}
        /\ pc' = IF allComposers = <<>> THEN "getScan" ELSE "getBodies"
  /\ UNCHANGED <<stores, handles, reads, maps, tabs, parsedComposers,
                 globalRawBubbles, idx, result, outcome, log, clock>>
  /\ UNCHANGED others

\* composerMetadataForGlobal = JSON.parse(composerMetadataResult.value);
\* const keys = allComposers.map((it) => { workspaceComposerIds.add(...) ... })
ParseMeta ==
  /\ pc = "parseMeta"
  /\ IF composerMetadataResult.k = "bad"
     THEN /\ Catch("parse")
          /\ UNCHANGED <<composerMetadataForGlobal, workspaceComposerIds>>
     ELSE /\ composerMetadataForGlobal' = composerMetadataResult.allComposers
          /\ workspaceComposerIds' =
               {composerMetadataResult.allComposers[j].composerId :
                  j \in 1..Len(composerMetadataResult.allComposers)}
          /\ pc' = IF composerMetadataResult.allComposers = <<>>
                   THEN "getScan" ELSE "getBodies"
          /\ UNCHANGED <<result, log, idx>>
  /\ UNCHANGED <<stores, handles, reads, maps, tabs, parsedComposers,
                 globalRawBubbles, outcome, clock>>
  /\ UNCHANGED others

\* SELECT value FROM cursorDiskKV WHERE [key] IN (...): the rows whose key is
\* one of the keys asked for.
RECURSIVE SelectIn(_, _)
SelectIn(rows, ids) ==
  IF rows = <<>> THEN <<>>
  ELSE (IF Head(rows).key \in ids THEN <<Head(rows).value>> ELSE <<>>)
       \o SelectIn(Tail(rows), ids)

\* composersBodyResult = await globalDb.all(...); parsedComposers = map(JSON.parse)
GetBodies ==
  /\ pc = "getBodies"
  /\ \E ok \in BOOLEAN :
       LET values == SelectIn(globalStore.bodies, workspaceComposerIds)
       IN IF ~ok
          THEN /\ Catch("all")
               /\ UNCHANGED parsedComposers
          ELSE IF \E j \in 1..Len(values) : values[j].k = "bad"
          THEN /\ Catch("parse")
               /\ UNCHANGED parsedComposers
          ELSE /\ parsedComposers' = values
               /\ idx' = 1
               /\ pc' = IF values = <<>> THEN "getScan" ELSE "composers"
               /\ UNCHANGED <<result, log>>
  /\ UNCHANGED <<stores, handles, reads, maps, workspaceComposerIds, tabs,
                 composerMetadataForGlobal, globalRawBubbles, outcome, clock>>
  /\ UNCHANGED others

\* One iteration of for (const composer of parsedComposers)
ProcessComposer ==
  /\ pc = "composers"
  /\ LET r == ComposerStep(allConversationsMap, allBubblesMap, headerOrderMap,
                           parsedComposers[idx], clock)
     IN IF r.thrown
        THEN /\ Catch("composer")
             /\ UNCHANGED maps
        ELSE /\ allConversationsMap' = r.convs
             /\ allBubblesMap' = r.bubs
             /\ headerOrderMap' = r.hdrs
             /\ idx' = idx + 1
             /\ pc' = IF idx = Len(parsedComposers) THEN "getScan" ELSE "composers"
             /\ UNCHANGED <<result, log>>
  /\ UNCHANGED <<stores, handles, reads, workspaceComposerIds, lists, outcome, clock>>
  /\ UNCHANGED others

\* const globalRawBubbles = await globalDb.all(... LIKE 'bubbleId:%')
GetScan ==
  /\ pc = "getScan"
  /\ \E ok \in BOOLEAN :
       IF ok
       THEN /\ globalRawBubbles' = globalStore.bubbles
            /\ idx' = 1
            /\ pc' = IF globalStore.bubbles = <<>> THEN "finalize" ELSE "scan"
            /\ UNCHANGED <<result, log>>
       ELSE /\ Catch("all")
            /\ UNCHANGED globalRawBubbles
  /\ UNCHANGED <<stores, handles, reads, maps, workspaceComposerIds, tabs,
                 composerMetadataForGlobal, parsedComposers, outcome, clock>>
  /\ UNCHANGED others

\* Mutant: the try block encloses the loop, so the first record that raises
\* ends the scan.
ProcessRecordOuterTry ==
  /\ pc = "scan"
  /\ LET r == GlobalStep(allConversationsMap, allBubblesMap, headerOrderMap,
                         workspaceComposerIds, composerMetadataForGlobal,
                         globalRawBubbles[idx], clock)
     IN /\ allConversationsMap' = r.convs
        /\ allBubblesMap' = r.bubs
        /\ headerOrderMap' = r.hdrs
  /\ idx' = idx + 1
  /\ pc' = IF idx = Len(globalRawBubbles)
              \/ RecordThrows(globalRawBubbles[idx], workspaceComposerIds)
           THEN "finalize" ELSE "scan"
  /\ UNCHANGED <<stores, handles, reads, workspaceComposerIds, lists, result,
                 outcome, log, clock>>
  /\ UNCHANGED others

\* One iteration of for (const rawBubble of globalRawBubbles) { try {...} catch {} }
ProcessRecord ==
  /\ pc = "scan"
  /\ LET r == GlobalStep(allConversationsMap, allBubblesMap, headerOrderMap,
                         workspaceComposerIds, composerMetadataForGlobal,
                         globalRawBubbles[idx], clock)
     IN /\ allConversationsMap' = r.convs
        /\ allBubblesMap' = r.bubs
        /\ headerOrderMap' = r.hdrs
  /\ idx' = idx + 1
  /\ pc' = IF idx = Len(globalRawBubbles) THEN "finalize" ELSE "scan"
  /\ UNCHANGED <<stores, handles, reads, workspaceComposerIds, lists, result,
                 outcome, log, clock>>
  /\ UNCHANGED others

\* The consolidation loop, the sort and return finalConversationsList
Finalize ==
  /\ pc = "finalize"
  /\ result' = FinalConversationsList(allConversationsMap, allBubblesMap, headerOrderMap)
  /\ pc' = "closeDb"
  /\ UNCHANGED <<stores, handles, reads, maps, workspaceComposerIds, lists, idx,
                 outcome, log, clock>>
  /\ UNCHANGED others

\* finally { if (db) await db.close(); ...
CloseDb ==
  /\ pc = "closeDb"
  /\ IF db # "open"
     THEN /\ pc' = "closeGlobal"
          /\ UNCHANGED <<db, outcome, result>>
     ELSE \E ok \in BOOLEAN :
            IF ok
            THEN /\ db' = "closed"
                 /\ pc' = "closeGlobal"
                 /\ UNCHANGED <<outcome, result>>
            ELSE /\ db' = "closeFailed"
                 /\ pc' = "done"
                 /\ outcome' = "raised"
                 /\ result' = <<>>
  /\ UNCHANGED <<stores, globalDb, reads, maps, workspaceComposerIds, lists, idx,
                 log, clock>>
  /\ UNCHANGED others

\* ... if (globalDb) await globalDb.close(); }
CloseGlobal ==
  /\ pc = "closeGlobal"
  /\ IF globalDb # "open"
     THEN /\ outcome' = "returned"
          /\ UNCHANGED <<globalDb, result>>
     ELSE \E ok \in BOOLEAN :
            IF ok
            THEN /\ globalDb' = "closed"
                 /\ outcome' = "returned"
                 /\ UNCHANGED result
            ELSE /\ globalDb' = "closeFailed"
                 /\ outcome' = "raised"
                 /\ result' = <<>>
  /\ pc' = "done"
  /\ UNCHANGED <<stores, db, reads, maps, workspaceComposerIds, lists, idx, log, clock>>
  /\ UNCHANGED others

\* Time passes between two steps of the run; only the loops read the clock.
Tick ==
  /\ pc \in {"tabs", "composers", "scan"}
  /\ clock < MaxClock
  /\ clock' = clock + 1
  /\ UNCHANGED <<stores, pc, handles, reads, maps, workspaceComposerIds, lists, idx,
                 result, outcome, log>>
  /\ UNCHANGED others

Next ==
  \/ WorkspaceMissing
  \/ OpenWorkspace
  \/ GetChat
  \/ GetMeta
  \/ ParseChat
  \/ ProcessTab
  \/ OpenGlobal
  \/ ParseMeta
  \/ GetBodies
  \/ ProcessComposer
  \/ GetScan
  \/ ProcessRecord
  \/ Finalize
  \/ CloseDb
  \/ CloseGlobal
  \/ Tick

Spec == Init /\ [][Next]_vars

TypeOK ==
  /\ pc \in {"idle", "start", "getChat", "getMeta", "parseChat", "tabs", "openGlobal",
             "parseMeta", "getBodies", "composers", "getScan", "scan", "finalize",
             "closeDb", "closeGlobal", "done"}
  /\ db \in {"null", "open", "closed", "closeFailed"}
  /\ globalDb \in {"null", "open", "closed", "closeFailed"}
  /\ outcome \in {"pending", "returned", "raised"}
  /\ clock \in 0..MaxClock

(***************************************************************************)
(* safeParseTimestamp on its own: one raw value is normalized twice, the   *)
(* first result is normalized again, and a conversation record takes its   *)
(* timestamps from the raw value at each place where the run assigns them. *)
(***************************************************************************)
MaxTsClock == 1

DateValue(hi, lo) == [k |-> "date", hi |-> hi, lo |-> lo]

\* The limbs of the numbers tried: around 0, the threshold 100000000000, the
\* present, and the two ends of the range of Date (in ms and in seconds).
HiLimbs ==
  {0 - 86400001, 0 - 86400000, 0 - 86401, 0 - 86400, 0 - 2000, 0 - 1001, 0 - 1000,
   0 - 1, 0, 999, 1000, 17000, 86400000}
LoLimbs == {0, 1, 5, Base - 5, Base - 1}

TimestampInputs ==
  {Undef, [k |-> "null"], NaN, [k |-> "obj"], Str(<<>>), Str(<<"x">>)}
    \cup {Iso(Num(hi, 0)) : hi \in {0 - 1000, 0, 17000}}
    \cup {DateValue(hi, 0) : hi \in {0, 17000, 86400001}}
    \cup {Num(hi, lo) : hi \in HiLimbs, lo \in LoLimbs}

\* A composer body, or an entry of the index, that has the two timestamps only.
TsComposer(createdAt, lastUpdatedAt) ==
  ComposerInstance(C1, Undef, createdAt, lastUpdatedAt, Undef, Undef, Undef, Undef)

TsInit ==
  /\ ExportIdle
  /\ PairIdle
  /\ GetIdle
  /\ wsStore = [exists |-> FALSE, chat |-> None, meta |-> None]
  /\ globalStore = SampleGlobalStore
  /\ FreshRun
  /\ log = {}
  /\ clock = 0
  /\ tsRaw \in TimestampInputs
  /\ tsPc = "raw"
  /\ tsFirst = Undef
  /\ tsSecond = Undef
  /\ tsAgain = Undef
  /\ tsConv = Undef
  /\ tsClock = 0

\* safeParseTimestamp(raw)
Normalize ==
  /\ tsPc = "raw"
  /\ tsFirst' = safeParseTimestamp(tsRaw, tsClock)
  /\ tsPc' = "once"
  /\ UNCHANGED <<runVars, exportVars, pairVars, getVars, tsRaw, tsSecond, tsAgain, tsConv, tsClock>>

\* safeParseTimestamp(raw) a second time, as for lastUpdatedAt and createdAt of a tab
NormalizeSame ==
  /\ tsPc = "once"
  /\ tsSecond' = safeParseTimestamp(tsRaw, tsClock)
  /\ tsPc' = "twice"
  /\ UNCHANGED <<runVars, exportVars, pairVars, getVars, tsRaw, tsFirst, tsAgain, tsConv, tsClock>>

\* safeParseTimestamp(safeParseTimestamp(raw))
NormalizeResult ==
  /\ tsPc = "twice"
  /\ tsAgain' = safeParseTimestamp(tsFirst, tsClock)
  /\ tsPc' = "thrice"
  /\ UNCHANGED <<runVars, exportVars, pairVars, getVars, tsRaw, tsFirst, tsSecond, tsConv, tsClock>>

\* A conversation record is created by a tab, by a composer body or by a
\* global bubble, its timestamps being the raw value or absent.
CreateConversation ==
  /\ tsPc = "thrice"
  /\ \/ tsConv' = TabStep(<<>>, EmptyMap, EmptyMap,
                          RawTab(T1, Undef, tsRaw, <<>>), tsClock).convs[1]
     \/ \E createdAt, lastUpdatedAt \in {Undef, tsRaw} :
          \/ tsConv' = NewComposerConversation(TsComposer(createdAt, lastUpdatedAt), tsClock)
          \/ tsConv' = NewGlobalConversation(C1, TsComposer(createdAt, lastUpdatedAt), tsClock)
  /\ tsPc' = "created"
  /\ UNCHANGED <<runVars, exportVars, pairVars, getVars, tsRaw, tsFirst, tsSecond, tsAgain, tsClock>>

\* A composer body without timestamps is merged into the record: the
\* timestamps of the record go through safeParseTimestamp again.
RenormalizeConversation ==
  /\ tsPc = "created"
  /\ tsConv' = MergedConversation(tsConv, TsComposer(Undef, Undef), tsClock)
  /\ tsPc' = "kept"
  /\ UNCHANGED <<runVars, exportVars, pairVars, getVars, tsRaw, tsFirst, tsSecond, tsAgain, tsClock>>

\* A composer body, or the index entry of a global bubble, updates the record.
UpdateConversation ==
  /\ tsPc = "kept"
  /\ \E createdAt, lastUpdatedAt \in {Undef, tsRaw} :
       \/ tsConv' = MergedConversation(tsConv, TsComposer(createdAt, lastUpdatedAt), tsClock)
       \/ tsConv' = RefreshedConversation(tsConv, TsComposer(createdAt, lastUpdatedAt), tsClock)
  /\ tsPc' = "updated"
  /\ UNCHANGED <<runVars, exportVars, pairVars, getVars, tsRaw, tsFirst, tsSecond, tsAgain, tsClock>>

\* Time passes between two calls.
TsTick ==
  /\ tsPc \in {"raw", "once", "twice", "thrice", "created", "kept"}
  /\ tsClock < MaxTsClock
  /\ tsClock' = tsClock + 1
  /\ UNCHANGED <<runVars, exportVars, pairVars, getVars, tsRaw, tsPc, tsFirst, tsSecond, tsAgain, tsConv>>

TsNext ==
  \/ Normalize
  \/ NormalizeSame
  \/ NormalizeResult
  \/ CreateConversation
  \/ RenormalizeConversation
  \/ UpdateConversation
  \/ TsTick

SpecTs == TsInit /\ [][TsNext]_vars

(***************************************************************************)
(* The export route, POST: the workspaces asked for (the selected ids, one *)
(* id, or every directory of the workspace path) are reconciled one after  *)
(* the other and their conversations written to one zip archive.           *)
(***************************************************************************)
MaxEntries == 2
MaxIds == 2

W1 == <<"w", "1">>
W2 == <<"w", "2">>
W3 == <<"w", ":", "3">>

\* The characters that sanitizeFilename replaces, among those of the model.
IllegalChars == {"<", ">", ":", "\"", "/", "\\", "|", "?", "*", "\n", "\t"}

\* name.replace(/[<>:"/\\|?*\x00-\x1F]/g, "_").replace(/\.$/, "_")
sanitizeFilename(name) ==
  LET replaced == [j \in 1..Len(name) |-> IF name[j] \in IllegalChars THEN "_" ELSE name[j]]
  IN IF replaced # <<>> /\ replaced[Len(replaced)] = "."
     THEN [replaced EXCEPT ![Len(replaced)] = "_"]
     ELSE replaced

\* The markdown text of a conversation, by what it is made of.
convertConversationToMarkdown(conversation) ==
  [title |-> conversation.name,
   created |-> conversation.createdAt,
   updated |-> conversation.lastUpdatedAt,
   summary |-> IF Truthy(conversation.summary) THEN conversation.summary ELSE Undef,
   messages |-> [j \in 1..Len(conversation.messages) |->
                   [role |-> conversation.messages[j].role,
                    content |-> conversation.messages[j].content]]]

\* sanitizeFilename(conv.name || conv.id) + ".md"
FileName(conv) ==
  sanitizeFilename(Or(conv.name, Str(conv.id)).s) \o <<".", "m", "d">>

\* conversations.forEach((conv) => workspaceFolder.file(filename, markdownContent))
RECURSIVE AddFiles(_, _)
AddFiles(folder, conversations) ==
  IF conversations = <<>> THEN folder
  ELSE AddFiles(Put(folder, FileName(Head(conversations)),
                    convertConversationToMarkdown(Head(conversations))),
                Tail(conversations))

\* zip.folder(name) and the files written to it
AddFolder(archive, name, conversations) ==
  Put(archive, name,
      AddFiles(IF Has(archive, name) THEN archive[name] ELSE EmptyMap, conversations))

Entry(name, isDirectory, store) ==
  [name |-> name, isDirectory |-> isDirectory, store |-> store]

MissingStore == [exists |-> FALSE, chat |-> None, meta |-> None]

\* A workspace store with one tab and an index of one composer.
FullStore ==
  [exists |-> TRUE,
   chat |-> [k |-> "json",
             tabs |-> <<RawTab(T1, Undef, Small(7),
                          <<RawBubble(Assistant, Undef, Str(<<"b">>), Undef,
                                      Str(<<"m", "3">>), Undef)>>)>>],
   meta |-> [k |-> "json",
             allComposers |-> <<ComposerMeta(C1, Str(<<"N">>), Small(3), Small(9))>>]]

\* A workspace store without chat data.
BareStore == [exists |-> TRUE, chat |-> None, meta |-> None]

\* A workspace store with two tabs whose chat titles have the same first line.
TwinStore ==
  [exists |-> TRUE,
   chat |-> [k |-> "json",
             tabs |-> <<RawTab(T1, Str(<<"A", "\n", "B">>), Small(5),
                          <<RawBubble(User, Undef, Str(<<"a">>), Undef,
                                      Str(<<"m", "1">>), Undef)>>),
                        RawTab(C1, Str(<<"A">>), Small(5),
                          <<RawBubble(User, Undef, Str(<<"a">>), Undef,
                                      Str(<<"m", "1">>), Undef)>>)>>],
   meta |-> None]

EntryUniverse ==
  {Entry(W1, TRUE, FullStore), Entry(W2, TRUE, BareStore), Entry(W3, TRUE, MissingStore),
   Entry(W2, FALSE, MissingStore), Entry(W2, TRUE, TwinStore)}

\* The global store next to the workspace directory.
ExportGlobalStore ==
  [exists |-> TRUE,
   bodies |-> <<BodyRow(C1, ComposerInstance(C1, Undef, Undef, Undef,
                   Arr(<<>>),
                   Arr(<<ComposerMessage(User, Undef, Str(<<"a">>), Undef, Undef)>>),
                   Undef, Undef))>>,
   bubbles |-> <<BubbleRow(<<"c", "1", ":", "b", "1">>,
                           BubbleData(Small(1), Str(<<"a">>), Undef, Undef))>>]

Bodies ==
  {[k |-> "bad"]}
    \cup {[k |-> "json", workspaceIds |-> ids, workspaceId |-> id] :
            ids \in {Undef} \cup {Arr(a) : a \in SeqsUpTo({W1, W2, W3}, MaxIds)},
            id \in {Undef, Str(W1)}}

\* path.join(workspacePathBase, id, "state.vscdb") on the disk
StoreOf(id) ==
  IF \E j \in 1..Len(disk) : disk[j].name = id /\ disk[j].isDirectory
  THEN disk[CHOOSE j \in 1..Len(disk) : disk[j].name = id /\ disk[j].isDirectory].store
  ELSE MissingStore

ExportInit ==
  /\ TsIdle
  /\ PairIdle
  /\ GetIdle
  /\ wsStore = MissingStore
  /\ globalStore = ExportGlobalStore
  /\ pc = "idle"
  /\ db = "null"
  /\ globalDb = "null"
  /\ chatResult = None
  /\ composerMetadataResult = None
  /\ allConversationsMap = <<>>
  /\ allBubblesMap = EmptyMap
  /\ headerOrderMap = EmptyMap
  /\ workspaceComposerIds = {}
  /\ tabs = <<>>
  /\ composerMetadataForGlobal = <<>>
  /\ parsedComposers = <<>>
  /\ globalRawBubbles = <<>>
  /\ idx = 0
  /\ result = <<>>
  /\ outcome = "pending"
  /\ log = {}
  /\ clock = 0
  /\ env \in BOOLEAN
  /\ body \in Bodies
  /\ disk \in {d \in SeqsUpTo(EntryUniverse, MaxEntries) :
                  \A a, b \in 1..Len(d) : a # b => d[a].name # d[b].name}
  /\ exportPc = "start"
  /\ mode = "none"
  /\ idsToExport = <<>>
  /\ pos = 0
  /\ foundAnyConversations = FALSE
  /\ zip = EmptyMap
  /\ response = Undef
  /\ pastHandles = <<>>

\* The run variables that a step of the handler outside a run leaves alone.
runLocals ==
  <<pc, db, globalDb, chatResult, composerMetadataResult, allConversationsMap,
    allBubblesMap, headerOrderMap, workspaceComposerIds, tabs,
    composerMetadataForGlobal, parsedComposers, globalRawBubbles, idx, result,
    outcome>>

\* return NextResponse.json(..., { status })
Respond(status) ==
  /\ response' = [status |-> status]
  /\ exportPc' = "done"

\* The start of the handler up to the choice of the branch.
ExportStart ==
  /\ exportPc = "start"
  /\ IF ~env
     THEN /\ Respond(500)
          /\ UNCHANGED <<mode, idsToExport, pos, log>>
     ELSE IF body.k = "bad"
     THEN /\ Respond(500)
          /\ log' = log \cup {"error:zip"}
          /\ UNCHANGED <<mode, idsToExport, pos>>
     ELSE IF IsArray(body.workspaceIds) /\ Len(body.workspaceIds.a) > 0
     THEN /\ mode' = "selected"
          /\ idsToExport' = [j \in 1..Len(body.workspaceIds.a) |->
                               Entry(body.workspaceIds.a[j], TRUE, MissingStore)]
          /\ pos' = 1
          /\ exportPc' = "loop"
          /\ UNCHANGED <<response, log>>
     ELSE IF Truthy(body.workspaceId)
     THEN /\ mode' = "single"
          /\ idsToExport' = <<Entry(body.workspaceId.s, TRUE, MissingStore)>>
          /\ pos' = 1
          /\ exportPc' = "loop"
          /\ UNCHANGED <<response, log>>
     ELSE \E ok \in BOOLEAN :
            IF ok
            THEN /\ mode' = "all"
                 /\ idsToExport' = disk
                 /\ pos' = 1
                 /\ exportPc' = "loop"
                 /\ UNCHANGED <<response, log>>
            ELSE /\ Respond(500)
                 /\ log' = log \cup {"error:zip"}
                 /\ UNCHANGED <<mode, idsToExport, pos>>
  /\ UNCHANGED <<stores, runLocals, clock, tsVars, pairVars, getVars, env,
                 body, disk,
                 foundAnyConversations, zip, pastHandles>>

\* if (entry.isDirectory()) is false: the entry is passed over.
SkipEntry ==
  /\ exportPc = "loop"
  /\ pos <= Len(idsToExport)
  /\ ~idsToExport[pos].isDirectory
  /\ pos' = pos + 1
  /\ UNCHANGED <<stores, runLocals, log, clock, tsVars, pairVars, getVars, env,
                 body, disk, exportPc, mode,
                 idsToExport, foundAnyConversations, zip, response, pastHandles>>

\* Mutant: the run of the next workspace is started without awaiting the one
\* in progress.
StartRunUnawaited ==
  /\ exportPc \in {"loop", "run"}
  /\ exportPc = "run" => pos < Len(idsToExport) /\ pc # "done"
  /\ exportPc = "loop" => pos <= Len(idsToExport) /\ idsToExport[pos].isDirectory
  /\ pos' = IF exportPc = "run" THEN pos + 1 ELSE pos
  /\ pastHandles' = IF exportPc = "run" THEN Append(pastHandles, <<db, globalDb>>)
                     ELSE pastHandles
  /\ wsStore' = StoreOf(idsToExport[pos'].name)
  /\ pc' = "start"
  /\ db' = "null"
  /\ globalDb' = "null"
  /\ chatResult' = None
  /\ composerMetadataResult' = None
  /\ allConversationsMap' = <<>>
  /\ allBubblesMap' = EmptyMap
  /\ headerOrderMap' = EmptyMap
  /\ workspaceComposerIds' = {}
  /\ tabs' = <<>>
  /\ composerMetadataForGlobal' = <<>>
  /\ parsedComposers' = <<>>
  /\ globalRawBubbles' = <<>>
  /\ idx' = 0
  /\ result' = <<>>
  /\ outcome' = "pending"
  /\ exportPc' = "run"
  /\ UNCHANGED <<globalStore, log, clock, tsVars, pairVars, getVars, env,
                 body, disk, mode, idsToExport,
                 foundAnyConversations, zip, response>>

\* const conversations = await fetchConversationsForWorkspace(id, ...): the call
StartRun ==
  /\ exportPc = "loop"
  /\ pos <= Len(idsToExport)
  /\ idsToExport[pos].isDirectory
  /\ wsStore' = StoreOf(idsToExport[pos].name)
  /\ pc' = "start"
  /\ db' = "null"
  /\ globalDb' = "null"
  /\ chatResult' = None
  /\ composerMetadataResult' = None
  /\ allConversationsMap' = <<>>
  /\ allBubblesMap' = EmptyMap
  /\ headerOrderMap' = EmptyMap
  /\ workspaceComposerIds' = {}
  /\ tabs' = <<>>
  /\ composerMetadataForGlobal' = <<>>
  /\ parsedComposers' = <<>>
  /\ globalRawBubbles' = <<>>
  /\ idx' = 0
  /\ result' = <<>>
  /\ outcome' = "pending"
  /\ exportPc' = "run"
  /\ UNCHANGED <<globalStore, log, clock, tsVars, pairVars, getVars, env,
                 body, disk, mode, idsToExport,
                 pos, foundAnyConversations, zip, response, pastHandles>>

\* The await resumes: the conversations of the run go to the folder of the
\* workspace; a run that raised goes to the catch block of the handler.
CollectRun ==
  /\ exportPc = "run"
  /\ pc = "done"
  /\ pastHandles' = Append(pastHandles, <<db, globalDb>>)
  /\ IF outcome = "raised"
     THEN /\ Respond(500)
          /\ log' = log \cup {"error:zip"}
          /\ UNCHANGED <<pos, foundAnyConversations, zip>>
     ELSE IF Len(result) > 0
     THEN /\ foundAnyConversations' = TRUE
          /\ zip' = AddFolder(zip, sanitizeFilename(idsToExport[pos].name), result)
          /\ pos' = pos + 1
          /\ exportPc' = "loop"
          /\ UNCHANGED <<response, log>>
     ELSE IF mode = "single"
     THEN /\ Respond(404)
          /\ UNCHANGED <<pos, foundAnyConversations, zip, log>>
     ELSE /\ pos' = pos + 1
          /\ exportPc' = "loop"
          /\ UNCHANGED <<response, foundAnyConversations, zip, log>>
  /\ UNCHANGED <<stores, runLocals, clock, tsVars, pairVars, getVars, env,
                 body, disk, mode, idsToExport>>

\* After the loop: 404 when nothing was found, else the archive is generated.
FinishExport ==
  /\ exportPc = "loop"
  /\ pos > Len(idsToExport)
  /\ IF ~foundAnyConversations
     THEN /\ Respond(404)
          /\ UNCHANGED log
     ELSE \E ok \in BOOLEAN :
            IF ok
            THEN /\ response' = [status |-> 200, content |-> zip]
                 /\ exportPc' = "done"
                 /\ UNCHANGED log
            ELSE /\ Respond(500)
                 /\ log' = log \cup {"error:zip"}
  /\ UNCHANGED <<stores, runLocals, clock, tsVars, pairVars, getVars, env,
                 body, disk, mode, idsToExport,
                 pos, foundAnyConversations, zip, pastHandles>>

ExportNext ==
  \/ ExportStart
  \/ SkipEntry
  \/ StartRun
  \/ CollectRun
  \/ FinishExport
  \/ WorkspaceMissing
  \/ OpenWorkspace
  \/ GetChat
  \/ GetMeta
  \/ ParseChat
  \/ ProcessTab
  \/ OpenGlobal
  \/ ParseMeta
  \/ GetBodies
  \/ ProcessComposer
  \/ GetScan
  \/ ProcessRecord
  \/ Finalize
  \/ CloseDb
  \/ CloseGlobal
  \/ Tick

SpecExport == ExportInit /\ [][ExportNext]_vars

(***************************************************************************)
(* Two runs of fetchConversationsForWorkspace in one process, as two       *)
(* requests start them.  JavaScript executes one run at a time; a run      *)
(* gives way to the other only where it awaits (open, get, all, close).    *)
(* The variables of the run hold the locals of the run that executes, and  *)
(* parked holds those of the run that is suspended.  The clock is held, so *)
(* that what two runs compute from the same stores can be compared.        *)
(***************************************************************************)
PairStores == {FullStore, TwinStore, MissingStore}

\* The locals of a run, with the workspace store that its dbPath names.
Frame(ws, at, d, g, chat, meta, convs, bubs, hdrs, ids, ts, metas, cs, recs, i, res, out) ==
  [wsStore |-> ws, pc |-> at, db |-> d, globalDb |-> g, chatResult |-> chat,
   composerMetadataResult |-> meta, allConversationsMap |-> convs,
   allBubblesMap |-> bubs, headerOrderMap |-> hdrs, workspaceComposerIds |-> ids,
   tabs |-> ts, composerMetadataForGlobal |-> metas, parsedComposers |-> cs,
   globalRawBubbles |-> recs, idx |-> i, result |-> res, outcome |-> out]

\* The locals of a call that has not executed a statement yet.
FreshFrame(ws) ==
  Frame(ws, "start", "null", "null", None, None, <<>>, EmptyMap, EmptyMap, {}, <<>>,
        <<>>, <<>>, <<>>, 0, <<>>, "pending")

CurrentFrame ==
  Frame(wsStore, pc, db, globalDb, chatResult, composerMetadataResult,
        allConversationsMap, allBubblesMap, headerOrderMap, workspaceComposerIds,
        tabs, composerMetadataForGlobal, parsedComposers, globalRawBubbles, idx,
        result, outcome)

PairInit ==
  /\ TsIdle
  /\ ExportIdle
  /\ GetIdle
  /\ wsStore \in PairStores
  /\ globalStore = ExportGlobalStore
  /\ FreshRun
  /\ log = {}
  /\ clock = 0
  /\ parked \in {FreshFrame(ws) : ws \in PairStores}
  /\ active = 1

\* The run that executes is at an await, or has ended.
AtAwait ==
  \/ pc = "start" /\ wsStore.exists
  \/ pc \in {"getChat", "getMeta", "getBodies", "getScan"}
  \/ pc = "openGlobal" /\ HasValue(composerMetadataResult) /\ globalStore.exists
  \/ pc = "closeDb" /\ db = "open"
  \/ pc = "closeGlobal" /\ globalDb = "open"
  \/ pc = "done"

\* Mutant: the four maps are declared outside the function, one for all runs.
SwitchSharingMaps ==
  /\ AtAwait
  /\ parked.pc # "done"
  /\ parked' = CurrentFrame
  /\ active' = 3 - active
  /\ wsStore' = parked.wsStore
  /\ pc' = parked.pc
  /\ db' = parked.db
  /\ globalDb' = parked.globalDb
  /\ chatResult' = parked.chatResult
  /\ composerMetadataResult' = parked.composerMetadataResult
  /\ tabs' = parked.tabs
  /\ composerMetadataForGlobal' = parked.composerMetadataForGlobal
  /\ parsedComposers' = parked.parsedComposers
  /\ globalRawBubbles' = parked.globalRawBubbles
  /\ idx' = parked.idx
  /\ result' = parked.result
  /\ outcome' = parked.outcome
  /\ UNCHANGED <<maps, workspaceComposerIds>>
  /\ UNCHANGED <<globalStore, log, clock, tsVars, exportVars, getVars>>

\* The run that executes awaits and the other run resumes, or starts: each
\* has its own locals, the maps of lines 155-158 among them.
Switch ==
  /\ AtAwait
  /\ parked.pc # "done"
  /\ parked' = CurrentFrame
  /\ active' = 3 - active
  /\ wsStore' = parked.wsStore
  /\ pc' = parked.pc
  /\ db' = parked.db
  /\ globalDb' = parked.globalDb
  /\ chatResult' = parked.chatResult
  /\ composerMetadataResult' = parked.composerMetadataResult
  /\ allConversationsMap' = parked.allConversationsMap
  /\ allBubblesMap' = parked.allBubblesMap
  /\ headerOrderMap' = parked.headerOrderMap
  /\ workspaceComposerIds' = parked.workspaceComposerIds
  /\ tabs' = parked.tabs
  /\ composerMetadataForGlobal' = parked.composerMetadataForGlobal
  /\ parsedComposers' = parked.parsedComposers
  /\ globalRawBubbles' = parked.globalRawBubbles
  /\ idx' = parked.idx
  /\ result' = parked.result
  /\ outcome' = parked.outcome
  /\ UNCHANGED <<globalStore, log, clock, tsVars, exportVars, getVars>>

PairNext ==
  \/ Switch
  \/ WorkspaceMissing
  \/ OpenWorkspace
  \/ GetChat
  \/ GetMeta
  \/ ParseChat
  \/ ProcessTab
  \/ OpenGlobal
  \/ ParseMeta
  \/ GetBodies
  \/ ProcessComposer
  \/ GetScan
  \/ ProcessRecord
  \/ Finalize
  \/ CloseDb
  \/ CloseGlobal

SpecPair == PairInit /\ [][PairNext]_vars

(***************************************************************************)
(* The three passes as folds of their steps over whole lists, with one     *)
(* clock reading t: what the loops compute from given lists.               *)
(***************************************************************************)
NoMaps == Maps(<<>>, EmptyMap, EmptyMap)

RECURSIVE FoldTabs(_, _, _)
FoldTabs(m, ts, t) ==
  IF ts = <<>> \/ m.thrown THEN m
  ELSE FoldTabs(TabStep(m.convs, m.bubs, m.hdrs, Head(ts), t), Tail(ts), t)

RECURSIVE FoldComposers(_, _, _)
FoldComposers(m, cs, t) ==
  IF cs = <<>> \/ m.thrown THEN m
  ELSE FoldComposers(ComposerStep(m.convs, m.bubs, m.hdrs, Head(cs), t), Tail(cs), t)

RECURSIVE FoldScan(_, _, _, _, _)
FoldScan(m, ids, metas, recs, t) ==
  IF recs = <<>> \/ m.thrown THEN m
  ELSE FoldScan(GlobalStep(m.convs, m.bubs, m.hdrs, ids, metas, Head(recs), t),
                ids, metas, Tail(recs), t)

ListOf(m) == FinalConversationsList(m.convs, m.bubs, m.hdrs)

(***************************************************************************)
(* The query route, GET(request, {params}): one request for the workspace  *)
(* of wsStore, handled whole.  Its three loops and its consolidation are   *)
(* those of fetchConversationsForWorkspace line for line (the two texts    *)
(* differ there in comments and in the names of types); it differs in that *)
(* it opens both stores without testing that the files exist, answers 404  *)
(* when the workspace store has neither row, and answers 500 from its      *)
(* catch block.  conversations is the list handed to NextResponse.json.    *)
(***************************************************************************)
\* What the storage layer does during the request: nothing raises, an open or
\* query of the handler raises, the open of the global store raises, or a
\* close in the finally block raises.
GetIo == {"ok", "raises", "globalOpenRaises", "closeRaises"}

\* The composer ids of the index of ws.
GetIds(ws) ==
  IF ws.meta.k = "json"
  THEN {ws.meta.allComposers[j].composerId : j \in 1..Len(ws.meta.allComposers)}
  ELSE {}

\* The maps after the loop over the tabs.
GetTabMaps(ws, t) ==
  FoldTabs(NoMaps, IF ws.chat.k = "json" THEN ws.chat.tabs ELSE <<>>, t)

\* The maps after the three loops, the global store being open or not.
GetMaps(ws, gs, opened, t) ==
  IF opened /\ ws.meta.k = "json"
  THEN FoldScan(FoldComposers(GetTabMaps(ws, t), SelectIn(gs.bodies, GetIds(ws)), t),
                GetIds(ws), ws.meta.allComposers, gs.bubbles, t)
  ELSE GetTabMaps(ws, t)

\* A JSON.parse or a loop of the handler raises.
GetRaises(ws, gs, opened, t) ==
  \/ ws.chat.k = "bad"
  \/ /\ opened
     /\ \/ ws.meta.k = "bad"
        \/ \E j \in 1..Len(gs.bodies) :
             gs.bodies[j].key \in GetIds(ws) /\ gs.bodies[j].value.k = "bad"
  \/ GetMaps(ws, gs, opened, t).thrown

\* Mutant: the list is not sorted by lastUpdatedAt.
GetListUnsorted(ws, gs, opened, t) ==
  LET m == GetMaps(ws, gs, opened, t) IN ConversationsList(m.convs, m.bubs, m.hdrs)

\* finalConversationsList after its sort
GetList(ws, gs, opened, t) == ListOf(GetMaps(ws, gs, opened, t))

\* The response.  Opening a file that does not exist either raises or creates
\* an empty database, whose first query raises for want of the table.
GetResponse(ws, gs, io, t) ==
  LET opened == HasValue(ws.meta) /\ io # "globalOpenRaises"
      list == GetList(ws, gs, opened, t)
  IN IF io = "closeRaises" THEN [status |-> "raised"]
     ELSE IF ~ws.exists \/ io = "raises" THEN [status |-> 500]
     ELSE IF GetRaises(ws, gs, opened, t) THEN [status |-> 500]
     ELSE IF opened /\ ~gs.exists THEN [status |-> 500]
     ELSE IF list = <<>> /\ ws.meta = None /\ ws.chat = None THEN [status |-> 404]
     ELSE [status |-> 200, conversations |-> list]

\* An open or a query of the run raised.
StorageRaised ==
  log \cap {"warn:globalOpen", "error:open", "error:get", "error:all"} # {}

\* The request is handled after a run of the export route for the same
\* workspace has returned without a failure of the storage layer, the stores
\* being as the run found them.
GET ==
  /\ pc = "done"
  /\ outcome = "returned"
  /\ ~StorageRaised
  /\ getResponse = Undef
  /\ \E io \in GetIo :
       /\ getResponse' = GetResponse(wsStore, globalStore, io, clock)
       /\ getIoOk' = (io = "ok")
  /\ UNCHANGED <<runVars, tsVars, exportVars, pairVars>>

RoutesNext ==
  \/ GET
  \/ WorkspaceMissing
  \/ OpenWorkspace
  \/ GetChat
  \/ GetMeta
  \/ ParseChat
  \/ ProcessTab
  \/ OpenGlobal
  \/ ParseMeta
  \/ GetBodies
  \/ ProcessComposer
  \/ GetScan
  \/ ProcessRecord
  \/ Finalize
  \/ CloseDb
  \/ CloseGlobal
  \/ Tick

SpecRoutes == Init /\ [][RoutesNext]_vars

(***************************************************************************)
(* Vocabulary of the properties.                                           *)
(***************************************************************************)
Range(f) == {f[x] : x \in DOMAIN f}

\* The composer ids listed in the composer-metadata index of the workspace store.
IndexIds ==
  IF wsStore.meta.k = "json"
  THEN {wsStore.meta.allComposers[j].composerId : j \in 1..Len(wsStore.meta.allComposers)}
  ELSE {}

\* The tab ids of the chat-data blob of the workspace store.
StoredTabs == IF wsStore.chat.k = "json" THEN wsStore.chat.tabs ELSE <<>>

Returned == pc = "done" /\ outcome = "returned"

SameMessage(a, b) == a.role = b.role /\ a.content = b.content

(***************************************************************************)
(* C1 - Workspace isolation: a global-store bubble record whose key names  *)
(* a composer id that the composer-metadata index of the workspace does    *)
(* not list leaves the conversation map and the staged messages unchanged, *)
(* and every message with the global-bubble tag, staged or returned,       *)
(* belongs to a conversation id of the index and is the message of a       *)
(* scanned record whose key names that id.                                 *)
(***************************************************************************)
FromRecordOf(id, bubble) ==
  \E rec \in Range(globalStore.bubbles) :
    /\ KeyParts(rec)[2] = id
    /\ rec.value.k = "obj"
    /\ Str(bubble.content) \in {rec.value.text, rec.value.richText}

GlobalMessagesIsolated ==
  /\ \A id \in DOMAIN allBubblesMap : \A bubble \in Range(allBubblesMap[id]) :
       bubble.originalSource = "globalBubble"
         => id \in IndexIds /\ FromRecordOf(id, bubble)
  /\ \A conv \in Range(result) : \A bubble \in Range(conv.messages) :
       bubble.originalSource = "globalBubble"
         => conv.id \in IndexIds /\ FromRecordOf(conv.id, bubble)

ForeignRecordStep ==
  /\ pc = "scan"
  /\ idx' = idx + 1
  /\ KeyParts(globalRawBubbles[idx])[2] \notin IndexIds

C1_WorkspaceIsolation ==
  [][(ForeignRecordStep => UNCHANGED <<allConversationsMap, allBubblesMap>>)
       /\ GlobalMessagesIsolated']_vars

\* A run that scanned a foreign record next to an admitted one and returned
\* a conversation holding a global bubble.
C1_Witness ==
  /\ Returned
  /\ \E rec \in Range(globalRawBubbles) : KeyParts(rec)[2] \notin IndexIds
  /\ \E conv \in Range(result) : \E bubble \in Range(conv.messages) :
       bubble.originalSource = "globalBubble"

(***************************************************************************)
(* C2 - Dedup invariant: no conversation of the returned list holds two    *)
(* messages with the same role and the same content.                       *)
(***************************************************************************)
C2_DedupInvariant ==
  \A conv \in Range(result) :
    \A a, b \in 1..Len(conv.messages) :
      a # b => ~SameMessage(conv.messages[a], conv.messages[b])

\* A returned conversation whose staged messages held a duplicate pair that
\* came from two different sources.
C2_Witness ==
  /\ Returned
  /\ \E conv \in Range(result) :
       \E a, b \in 1..Len(GetBubbles(allBubblesMap, conv.id)) :
         /\ a # b
         /\ SameMessage(allBubblesMap[conv.id][a], allBubblesMap[conv.id][b])
         /\ allBubblesMap[conv.id][a].originalSource # allBubblesMap[conv.id][b].originalSource

(***************************************************************************)
(* C3 - One conversation per identifier: the ids of the conversations of   *)
(* the returned list are pairwise distinct.                                *)
(***************************************************************************)
C3_DistinctIds ==
  \A a, b \in 1..Len(result) : a # b => result[a].id # result[b].id

\* A returned conversation whose id is a legacy tab id stored twice, or a
\* tab id that is also a composer id of the index.
C3_Witness ==
  /\ Returned
  /\ \E conv \in Range(result) :
       \/ \E a, b \in 1..Len(StoredTabs) :
            a # b /\ StoredTabs[a].tabId = conv.id /\ StoredTabs[b].tabId = conv.id
       \/ /\ \E a \in 1..Len(StoredTabs) : StoredTabs[a].tabId = conv.id
          /\ \E c \in Range(parsedComposers) : c.composerId = conv.id

\* A conversation list without its timestamps.
Outline(list) ==
  [j \in 1..Len(list) |->
     [id |-> list[j].id, name |-> list[j].name, summary |-> list[j].summary,
      messages |-> list[j].messages]]

ErrorLogged ==
  log \cap {"error:open", "error:get", "error:parse", "error:all", "error:tab",
            "error:composer", "error:globalOpen"} # {}

IsPrefix(a, b) == Len(a) <= Len(b) /\ SubSeq(b, 1, Len(a)) = a

(***************************************************************************)
(* C4 - Update, never replace: once a conversation record exists for an    *)
(* id, no later step of the run removes the record or discards a message   *)
(* staged for the id; the messages staged before the step are a prefix of  *)
(* the messages staged after it.                                           *)
(***************************************************************************)
C4_UpdateNeverReplace ==
  [][\A id \in DOMAIN allBubblesMap :
       ConvHas(allConversationsMap, id)
         => /\ ConvHas(allConversationsMap', id)
            /\ Has(allBubblesMap', id)
            /\ IsPrefix(allBubblesMap[id], allBubblesMap'[id])]_vars

C6_NoErrorEscapes == pc = "done" => outcome = "returned"

(***************************************************************************)
(* C7 - Handles released: when a run has ended, no store handle that it    *)
(* opened is still open.                                                   *)
(***************************************************************************)
C7_HandlesReleased == pc = "done" => db # "open" /\ globalDb # "open"

(***************************************************************************)
(* C8 - Malformed top-level blob, as stated: a run over a workspace store  *)
(* whose chat-data blob or composer-metadata blob is text that is not      *)
(* JSON returns the empty list.                                            *)
(***************************************************************************)
C8_MalformedBlobAborts ==
  (Returned /\ wsStore.exists /\ (wsStore.chat.k = "bad" \/ wsStore.meta.k = "bad"))
    => result = <<>>

(***************************************************************************)
(* C8, amended: when the chat-data blob is text that is not JSON, or the   *)
(* composer-metadata blob is text that is not JSON and the global store    *)
(* was opened, the run goes through its top-level handler and hands back   *)
(* no conversation, whatever the other blob and the global store hold.     *)
(***************************************************************************)
C8_ParsedMalformedBlobAborts ==
  (pc = "done" /\ wsStore.exists
     /\ (wsStore.chat.k = "bad" \/ (wsStore.meta.k = "bad" /\ globalDb # "null")))
    => result = <<>> /\ ErrorLogged

\* The legacy tabs had produced conversations when the malformed
\* composer-metadata blob was parsed, and the run ended.
C8_Witness ==
  /\ pc = "done"
  /\ wsStore.meta.k = "bad"
  /\ "error:parse" \in log
  /\ ListOf(Maps(allConversationsMap, allBubblesMap, headerOrderMap)) # <<>>
  /\ globalStore.bubbles # <<>>

(***************************************************************************)
(* C9 - Malformed global record is skipped: the step of the scan on a      *)
(* record whose value does not parse, or parses to null, changes no map,   *)
(* logs nothing and moves on to the next record; and a run without storage *)
(* failure returns the list that the same stores return with those records *)
(* removed from the scan.                                                  *)
(***************************************************************************)
MalformedRecord(rec) == rec.value.k # "obj"
WellFormedRecord(rec) == ~MalformedRecord(rec)

MalformedRecordStep ==
  /\ pc = "scan"
  /\ clock' = clock
  /\ MalformedRecord(globalRawBubbles[idx])

\* The list of a run without failure over the stores, the scan being recs.
ExpectedList(recs) ==
  ListOf(FoldScan(FoldComposers(FoldTabs(NoMaps, StoredTabs, 0),
                                SelectIn(globalStore.bodies, IndexIds), 0),
                  IndexIds, wsStore.meta.allComposers, recs, 0))

ScannedWithoutFailure ==
  /\ Returned
  /\ clock = 0
  /\ log = {}
  /\ globalDb = "closed"
  /\ globalRawBubbles = globalStore.bubbles

C9_MalformedRecordSkipped ==
  [][/\ MalformedRecordStep
          => /\ UNCHANGED <<allConversationsMap, allBubblesMap, headerOrderMap, log>>
             /\ idx' = idx + 1
             /\ pc' = IF idx < Len(globalRawBubbles) THEN "scan" ELSE "finalize"
     /\ ScannedWithoutFailure'
          => result' = ExpectedList(SelectSeq(globalStore.bubbles, WellFormedRecord))]_vars

\* A returned scan in which a well-formed admitted record followed a
\* malformed one and was staged.
C9_Witness ==
  /\ ScannedWithoutFailure
  /\ \E a, b \in 1..Len(globalRawBubbles) :
       /\ a < b
       /\ MalformedRecord(globalRawBubbles[a])
       /\ WellFormedRecord(globalRawBubbles[b])
       /\ \E conv \in Range(result) : \E bubble \in Range(conv.messages) :
            /\ bubble.originalSource = "globalBubble"
            /\ KeyParts(globalRawBubbles[b])[2] = conv.id

(***************************************************************************)
(* C10 - Ordering with hints: in a returned conversation whose header map  *)
(* is not empty, every message with a hint precedes every message without  *)
(* one, the hints of the hinted messages ascend, and the messages without  *)
(* a hint are in the order of the deduplicated staged messages.            *)
(***************************************************************************)
Hinted(id, bubble) == HasHint(headerOrderMap[id], bubble)
Unhinted(id, list) ==
  LET NoHint(bubble) == ~Hinted(id, bubble) IN SelectSeq(list, NoHint)

NoHintMap(id) == ~Has(headerOrderMap, id) \/ DOMAIN headerOrderMap[id] = {}

\* The messages of list[1..n] that no earlier message of list equals in role
\* and content.
RECURSIVE KeepFirsts(_, _)
KeepFirsts(list, n) ==
  IF n = 0 THEN <<>>
  ELSE KeepFirsts(list, n - 1)
       \o (IF \A j \in 1..(n - 1) : ~SameMessage(list[j], list[n])
           THEN <<list[n]>> ELSE <<>>)

SourceRank(bubble) ==
  CASE bubble.originalSource = "chatResult" -> 1
    [] bubble.originalSource = "composerMessage" -> 2
    [] bubble.originalSource = "globalBubble" -> 3

HasInk(s) == \E j \in 1..Len(s) : s[j] \notin {" ", "\n", "\t"}

FromSource(list, source) ==
  LET Tagged(bubble) == bubble.originalSource = source IN SelectSeq(list, Tagged)

Contents(list) == [j \in 1..Len(list) |-> list[j].content]

\* The texts of the messages of the composer bodies cs whose id is id.
RECURSIVE ComposerTexts(_, _)
ComposerTexts(cs, id) ==
  IF cs = <<>> THEN <<>>
  ELSE (IF Head(cs).composerId = id /\ IsArray(MessagesSource(Head(cs)))
        THEN LET msgs == MessagesSource(Head(cs)).a
                 texts == [j \in 1..Len(msgs) |->
                             ResolvedContent(msgs[j].content, msgs[j].text).s]
             IN SelectSeq(texts, HasInk)
        ELSE <<>>) \o ComposerTexts(Tail(cs), id)

\* The texts of the records of the scan recs that are staged for id.
RECURSIVE RecordTexts(_, _)
RecordTexts(recs, id) ==
  IF recs = <<>> THEN <<>>
  ELSE (IF /\ Head(recs).value.k = "obj"
           /\ KeyParts(Head(recs))[2] = id
           /\ id \in IndexIds
           /\ HasInk(TextContent(Head(recs).value).s)
        THEN <<TextContent(Head(recs).value).s>>
        ELSE <<>>) \o RecordTexts(Tail(recs), id)

C11_OrderingWithoutHints ==
  \A conv \in Range(result) :
    NoHintMap(conv.id) =>
      LET staged == GetBubbles(allBubblesMap, conv.id)
      IN /\ conv.messages = KeepFirsts(staged, Len(staged))
         /\ \A a, b \in 1..Len(staged) :
              a < b => SourceRank(staged[a]) <= SourceRank(staged[b])
         /\ Contents(FromSource(staged, "composerMessage"))
              = ComposerTexts(parsedComposers, conv.id)
         /\ Contents(FromSource(staged, "globalBubble"))
              = RecordTexts(globalRawBubbles, conv.id)

\* A returned conversation without header map whose staged messages came
\* from two sources and held a pair twice.
C11_Witness ==
  /\ Returned
  /\ \E conv \in Range(result) :
       LET staged == GetBubbles(allBubblesMap, conv.id)
       IN /\ NoHintMap(conv.id)
          /\ Len(conv.messages) < Len(staged)
          /\ \E a, b \in 1..Len(staged) : SourceRank(staged[a]) < SourceRank(staged[b])

(***************************************************************************)
(* C12 - No empty conversation in the output: every conversation of the    *)
(* returned list has at least one message, and the ids of the list of a    *)
(* run that met no error are the ids of the conversation records for which *)
(* at least one message is staged.                                         *)
(***************************************************************************)
RecordIds(convs) == {convs[j].id : j \in 1..Len(convs)}

C12_NoEmptyConversation ==
  /\ \A conv \in Range(result) : Len(conv.messages) > 0
  /\ (Returned /\ ~ErrorLogged)
       => RecordIds(result)
            = {id \in RecordIds(allConversationsMap) : GetBubbles(allBubblesMap, id) # <<>>}

\* A run returned a conversation and left out a record without messages.
C12_Witness ==
  /\ Returned
  /\ result # <<>>
  /\ \E id \in RecordIds(allConversationsMap) : GetBubbles(allBubblesMap, id) = <<>>

(***************************************************************************)
(* C13 - Empty-content drop: a step stages one message for each raw record *)
(* whose resolved content has a character that is not white space and none *)
(* for the others (a global bubble with blank text changes no map); every  *)
(* message staged or returned has such a character; and an id whose raw    *)
(* records in the three sources are all blank is not an id of the returned *)
(* list.                                                                   *)
(***************************************************************************)
\* How many raw records of list have a resolved content that is not blank.
InkCount(list, Primary(_), Secondary(_)) ==
  Cardinality({j \in 1..Len(list) :
                 HasInk(ResolvedContent(Primary(list[j]), Secondary(list[j])).s)})

ContentOf(raw) == raw.content
TextOf(raw) == raw.text
RichTextOf(raw) == raw.richText

\* The resolved contents of the raw records that the run read for id.
RawTexts(id) ==
  {ResolvedContent(b.content, b.text).s :
     b \in UNION {Range(tab.bubbles) : tab \in {x \in Range(tabs) : x.tabId = id}}}
  \cup {ResolvedContent(msg.content, msg.text).s :
          msg \in UNION {Range(MessagesSource(c).a) :
                          c \in {x \in Range(parsedComposers) :
                                   x.composerId = id /\ IsArray(MessagesSource(x))}}}
  \cup {TextContent(rec.value).s :
          rec \in {x \in Range(globalRawBubbles) :
                     x.value.k = "obj" /\ KeyParts(x)[2] = id}}

StagedHaveInk ==
  /\ \A id \in DOMAIN allBubblesMap : \A bubble \in Range(allBubblesMap[id]) :
       HasInk(bubble.content)
  /\ \A conv \in Range(result) :
       /\ \A bubble \in Range(conv.messages) : HasInk(bubble.content)
       /\ \E text \in RawTexts(conv.id) : HasInk(text)

TabStagesInked ==
  (pc = "tabs" /\ idx' = idx + 1)
    => Len(allBubblesMap'[tabs[idx].tabId])
         = InkCount(tabs[idx].bubbles, ContentOf, TextOf)

ComposerStagesInked ==
  (pc = "composers" /\ idx' = idx + 1)
    => LET composer == parsedComposers[idx]
           source == MessagesSource(composer)
       IN Len(allBubblesMap'[composer.composerId])
            = Len(GetBubbles(allBubblesMap, composer.composerId))
              + (IF IsArray(source) THEN InkCount(source.a, ContentOf, TextOf) ELSE 0)

RecordStagesInked ==
  (pc = "scan" /\ idx' = idx + 1 /\ globalRawBubbles[idx].value.k = "obj")
    => LET rec == globalRawBubbles[idx]
           id == KeyParts(rec)[2]
       IN IF id \in IndexIds /\ HasInk(TextContent(rec.value).s)
          THEN Len(allBubblesMap'[id]) = Len(GetBubbles(allBubblesMap, id)) + 1
          ELSE UNCHANGED <<allConversationsMap, allBubblesMap>>

C13_EmptyContentDrop ==
  [][TabStagesInked /\ ComposerStagesInked /\ RecordStagesInked /\ StagedHaveInk']_vars

\* A run met a blank bubble in a legacy tab, returned a conversation, and
\* left out an id whose raw records were all blank.
C13_Witness ==
  /\ Returned
  /\ result # <<>>
  /\ \E tab \in Range(tabs) : \E b \in Range(tab.bubbles) :
       ~HasInk(ResolvedContent(b.content, b.text).s)
  /\ \E id \in RecordIds(allConversationsMap) :
       /\ RawTexts(id) # {}
       /\ \A text \in RawTexts(id) : ~HasInk(text)
       /\ id \notin RecordIds(result)

(***************************************************************************)
(* Calls of safeParseTimestamp.                                            *)
(***************************************************************************)
Called == tsPc \in {"once", "twice", "thrice", "created", "kept", "updated"}
CalledThrice == tsPc \in {"thrice", "created", "kept", "updated"}

Magnitude(n) == IF Less(n, Small(0)) THEN Neg(n) ELSE n

\* The instant that the unit rule gives for the number n: n seconds when the
\* magnitude of n is at most 100000000000, n milliseconds otherwise.
RuleInstant(n) == IF Leq(Magnitude(n), Num(1000, 0)) THEN Times1000(n) ELSE n

(***************************************************************************)
(* C14 - Timestamp unit rule: the result of safeParseTimestamp on a number *)
(* n is the instant n * 1000 ms when the magnitude of n is at most         *)
(* 100000000000 and the instant n ms when it is greater, for every n,      *)
(* negative or not, for which that instant is one that a Date can hold.    *)
(***************************************************************************)
C14_TimestampUnitRule ==
  (Called /\ tsRaw.k = "num" /\ ValidDate(RuleInstant(tsRaw)))
    => tsFirst = Iso(RuleInstant(tsRaw))

(***************************************************************************)
(* C15 - Timestamp boundary, as stated: safeParseTimestamp takes the       *)
(* number 100000000000 as milliseconds (the instant 100000000000 ms) and   *)
(* the number 99999999999 as seconds (the instant 99999999999000 ms).      *)
(***************************************************************************)
C15_TimestampBoundary ==
  Called =>
    /\ tsRaw = Num(1000, 0) => tsFirst = Iso(Num(1000, 0))
    /\ tsRaw = Num(999, 99999999) => tsFirst = Iso(Num(999999, 99999000))

(***************************************************************************)
(* C15, amended: safeParseTimestamp takes 100000000000 itself as seconds   *)
(* (the instant 100000000000000 ms), as it does 99999999999; the first     *)
(* number taken as milliseconds is 100000000001.                           *)
(***************************************************************************)
C15_BoundaryIsSeconds ==
  Called =>
    /\ tsRaw = Num(1000, 0) => tsFirst = Iso(Num(1000000, 0))
    /\ tsRaw = Num(999, 99999999) => tsFirst = Iso(Num(999999, 99999000))
    /\ tsRaw = Num(1000, 1) => tsFirst = Iso(Num(1000, 1))

\* The number 100000000000 has been normalized.
C15_Witness == tsPc = "once" /\ tsRaw = Num(1000, 0) /\ tsFirst.k = "iso"

(***************************************************************************)
(* C16 - Timestamps always well-formed: every result of safeParseTimestamp *)
(* is the ISO form of an instant that a Date can hold, whatever the raw    *)
(* value, and so are createdAt and lastUpdatedAt of a conversation record  *)
(* at each place where a run assigns them.                                 *)
(***************************************************************************)
WellFormedInstant(v) == v.k = "iso" /\ ValidDate(Num(v.hi, v.lo))

C16_TimestampsWellFormed ==
  /\ Called => WellFormedInstant(tsFirst)
  /\ tsPc \in {"twice", "thrice", "created", "kept", "updated"} => WellFormedInstant(tsSecond)
  /\ CalledThrice => WellFormedInstant(tsAgain)
  /\ tsPc \in {"created", "kept", "updated"}
       => WellFormedInstant(tsConv.createdAt) /\ WellFormedInstant(tsConv.lastUpdatedAt)

\* A conversation record was created and updated with a raw value that is
\* no instant: a number or a Date out of range, NaN, or another shape.
C16_Witness ==
  /\ tsPc = "updated"
  /\ \/ tsRaw.k \in {"num", "date"} /\ ~ValidDate(Num(tsRaw.hi, tsRaw.lo))
     \/ tsRaw.k \in {"nan", "obj"}
  /\ tsConv.lastUpdatedAt = Iso(NowMs(1))
  /\ tsConv.createdAt = Iso(NowMs(0))

(***************************************************************************)
(* C17 - Idempotence of normalization, as stated: for every raw value the  *)
(* second call on the raw value and the call on the result of the first    *)
(* call give the instant of the first call.                                *)
(***************************************************************************)
C17_NormalizationIdempotent ==
  CalledThrice => tsSecond = tsFirst /\ tsAgain = tsFirst

(***************************************************************************)
(* C17, amended: normalizing the result of a normalization gives the same  *)
(* instant for every raw value, and a conversation record keeps its        *)
(* timestamps when they are normalized again; two calls on the same raw    *)
(* value give the same instant when the value is a valid Date, a string    *)
(* that parses, or a number from -8640000000000 to 8640000000000000; for   *)
(* any other value each call gives the time of the call.                   *)
(***************************************************************************)
DenotesInstant(raw) ==
  \/ raw.k = "date" /\ ValidDate(Num(raw.hi, raw.lo))
  \/ raw.k = "iso"
  \/ raw.k = "num" /\ Leq(Num(0 - 86400, 0), raw) /\ Leq(raw, Num(86400000, 0))

C17_RenormalizationIdempotent ==
  [][/\ CalledThrice' =>
          /\ tsAgain' = tsFirst'
          /\ DenotesInstant(tsRaw) => tsSecond' = tsFirst'
          /\ ~DenotesInstant(tsRaw) =>
               \E t1, t2 \in 0..tsClock' :
                 /\ t1 <= t2
                 /\ tsFirst' = Iso(NowMs(t1))
                 /\ tsSecond' = Iso(NowMs(t2))
     /\ (tsPc = "created" /\ tsPc' = "kept") => tsConv' = tsConv]_vars

\* An absent value was normalized twice with the clock advancing in
\* between, and the first result was normalized again after that.
C17_Witness ==
  /\ tsPc = "kept"
  /\ tsRaw = Undef
  /\ tsSecond # tsFirst
  /\ tsAgain = tsFirst

(***************************************************************************)
(* The step of the composer loop on a body whose id has a conversation     *)
(* record made by a legacy tab.                                            *)
(***************************************************************************)
ConflictStep ==
  /\ pc = "composers"
  /\ idx' = idx + 1
  /\ ConvHas(allConversationsMap, parsedComposers[idx].composerId)
  /\ \E tab \in Range(tabs) : tab.tabId = parsedComposers[idx].composerId

Present(v) == v.k \notin {"undef", "null"}
HasText(v) == v.k = "str" /\ v.s # <<>>

\* A timestamp that || does not pass over: present, and not 0, NaN or "".
Usable(v) == Present(v) /\ v.k # "nan" /\ v # Small(0) /\ v # Str(<<>>)

(***************************************************************************)
(* C18 - Composer wins on conflict, as stated: after the step the title is *)
(* the composer name if there is one, the summary the composer summary if  *)
(* there is one, lastUpdatedAt the normalized composer lastUpdatedAt if    *)
(* present, or else the normalized composer createdAt if present, and      *)
(* createdAt the normalized composer createdAt if present.                 *)
(***************************************************************************)
C18_ComposerWins ==
  [][ConflictStep =>
       LET composer == parsedComposers[idx]
           after == ConvGet(allConversationsMap', composer.composerId)
       IN /\ HasText(composer.name) => after.title = composer.name
          /\ HasText(composer.summary) => after.summary = composer.summary
          /\ Present(composer.lastUpdatedAt)
               => after.lastUpdatedAt = safeParseTimestamp(composer.lastUpdatedAt, clock)
          /\ (~Present(composer.lastUpdatedAt) /\ Present(composer.createdAt))
               => after.lastUpdatedAt = safeParseTimestamp(composer.createdAt, clock)
          /\ Present(composer.createdAt)
               => after.createdAt = safeParseTimestamp(composer.createdAt, clock)]_vars

(***************************************************************************)
(* C18, amended: the same, a timestamp of the composer counting only when  *)
(* it is usable (present and not 0, NaN or the empty string): a            *)
(* lastUpdatedAt of 0 is passed over for createdAt, and when neither is    *)
(* usable the record keeps the instant it had.                             *)
(***************************************************************************)
C18_ComposerWinsWhenUsable ==
  [][ConflictStep =>
       LET composer == parsedComposers[idx]
           before == ConvGet(allConversationsMap, composer.composerId)
           after == ConvGet(allConversationsMap', composer.composerId)
       IN /\ HasText(composer.name) => after.title = composer.name
          /\ HasText(composer.summary) => after.summary = composer.summary
          /\ Usable(composer.lastUpdatedAt)
               => after.lastUpdatedAt = safeParseTimestamp(composer.lastUpdatedAt, clock)
          /\ (~Usable(composer.lastUpdatedAt) /\ Usable(composer.createdAt))
               => after.lastUpdatedAt = safeParseTimestamp(composer.createdAt, clock)
          /\ (~Usable(composer.lastUpdatedAt) /\ ~Usable(composer.createdAt))
               => after.lastUpdatedAt = before.lastUpdatedAt
          /\ Usable(composer.createdAt)
               => after.createdAt = safeParseTimestamp(composer.createdAt, clock)]_vars

\* A returned conversation of a legacy tab carries the name, the summary and
\* the creation time of the composer body with its id.
C18_Witness ==
  /\ Returned
  /\ \E conv \in Range(result) : \E tab \in Range(tabs) : \E c \in Range(parsedComposers) :
       /\ tab.tabId = conv.id
       /\ c.composerId = conv.id
       /\ HasText(c.name) /\ conv.name = c.name /\ conv.name # TabTitle(tab)
       /\ HasText(c.summary) /\ conv.summary = c.summary
       /\ Usable(c.createdAt)
       /\ conv.createdAt # safeParseTimestamp(tab.lastSendTime, 0)

(***************************************************************************)
(* C19 - Result order: in the returned list the lastUpdatedAt of a         *)
(* conversation is not before the lastUpdatedAt of the conversation that   *)
(* follows it, and the list holds the conversations of the consolidation,  *)
(* each once.                                                              *)
(***************************************************************************)
C19_ResultOrder ==
  /\ \A j \in 1..(Len(result) - 1) :
       ~Less(GetTime(result[j].lastUpdatedAt), GetTime(result[j + 1].lastUpdatedAt))
  /\ (Returned /\ ~ErrorLogged)
       => /\ Range(result)
               = Range(ConversationsList(allConversationsMap, allBubblesMap, headerOrderMap))
          /\ Len(result)
               = Len(ConversationsList(allConversationsMap, allBubblesMap, headerOrderMap))

\* The run returned two conversations in the reverse of the order in which
\* their records were made, the later-made one being the more recent.
C19_Witness ==
  /\ Returned
  /\ Len(result) = 2
  /\ Less(GetTime(result[2].lastUpdatedAt), GetTime(result[1].lastUpdatedAt))
  /\ ConvIndex(allConversationsMap, result[2].id) < ConvIndex(allConversationsMap, result[1].id)

(***************************************************************************)
(* C20 - Sequential multi-workspace export: within one export request a    *)
(* run is started only when no run is in progress and no store handle is   *)
(* open; once a later run has been started, no handle of an earlier run is *)
(* open; and at no time do two runs hold an open handle.                   *)
(***************************************************************************)
HoldsOpen(pair) == pair[1] = "open" \/ pair[2] = "open"

RunStarts == pc' = "start" /\ exportPc' = "run" /\ (pc # "start" \/ exportPc # "run")

EarlierRunsClosed ==
  /\ exportPc = "run" => \A j \in 1..Len(pastHandles) : ~HoldsOpen(pastHandles[j])
  /\ \A j \in 1..(Len(pastHandles) - 1) : ~HoldsOpen(pastHandles[j])
  /\ Cardinality({j \in 1..Len(pastHandles) : HoldsOpen(pastHandles[j])})
       + (IF exportPc = "run" /\ HoldsOpen(<<db, globalDb>>) THEN 1 ELSE 0) <= 1

C20_SequentialExport ==
  [][/\ RunStarts => /\ pc \in {"idle", "done"}
                     /\ ~HoldsOpen(<<db, globalDb>>)
                     /\ pc = "done" => outcome = "returned"
     /\ EarlierRunsClosed']_vars

\* An export of every directory has run two workspaces, each of which
\* opened its store, the first the global store too, and has answered 200.
C20_Witness ==
  /\ exportPc = "done"
  /\ mode = "all"
  /\ response.status = 200
  /\ Len(pastHandles) = 2
  /\ pastHandles[1] = <<"closed", "closed">>
  /\ pastHandles[2][1] = "closed"

(***************************************************************************)
(* C21 - One file per conversation: whenever the export route has written  *)
(* the conversations returned for a workspace to the folder of that        *)
(* workspace, the folder holds as many files as conversations were         *)
(* returned, whatever their titles and ids.                                *)
(***************************************************************************)
\* The step of the handler that writes the conversations of a run to the zip.
WritesFolder ==
  /\ exportPc = "run"
  /\ pc = "done"
  /\ outcome = "returned"
  /\ Len(result) > 0
  /\ exportPc' = "loop"

FolderOf(archive, name) == IF Has(archive, name) THEN archive[name] ELSE EmptyMap

C21_OneFilePerConversation ==
  [][WritesFolder =>
       Cardinality(DOMAIN FolderOf(zip', sanitizeFilename(idsToExport[pos].name)))
         = Len(result)]_vars

(***************************************************************************)
(* C22 - Merge leaves absent fields unchanged: when the composer loop      *)
(* processes a body whose id already has a conversation record and the     *)
(* body has no name, no summary, no lastUpdatedAt and no createdAt, the    *)
(* title, summary, lastUpdatedAt and createdAt of the record after the     *)
(* step are those it had before.                                           *)
(***************************************************************************)
\* The step of the composer loop on a body whose id has a conversation record.
MergeStep ==
  /\ pc = "composers"
  /\ idx' = idx + 1
  /\ ConvHas(allConversationsMap, parsedComposers[idx].composerId)

SuppliesNothing(composer) ==
  /\ ~Present(composer.name)
  /\ ~Present(composer.summary)
  /\ ~Present(composer.lastUpdatedAt)
  /\ ~Present(composer.createdAt)

C22_AbsentFieldsUnchanged ==
  [][(MergeStep /\ SuppliesNothing(parsedComposers[idx])) =>
       LET id == parsedComposers[idx].composerId
           before == ConvGet(allConversationsMap, id)
           after == ConvGet(allConversationsMap', id)
       IN /\ after.title = before.title
          /\ after.summary = before.summary
          /\ after.lastUpdatedAt = before.lastUpdatedAt
          /\ after.createdAt = before.createdAt]_vars

\* The composer loop has just merged a body without name, summary and
\* timestamps into the record of a legacy tab, which has the title and the
\* instants of the tab.
C22_Witness ==
  /\ pc = "getScan"
  /\ Len(parsedComposers) = 1
  /\ SuppliesNothing(parsedComposers[1])
  /\ \E tab \in Range(tabs) :
       /\ tab.tabId = parsedComposers[1].composerId
       /\ ConvHas(allConversationsMap, tab.tabId)
       /\ LET conv == ConvGet(allConversationsMap, tab.tabId)
          IN /\ conv.title = TabTitle(tab)
             /\ conv.summary = Undef
             /\ tab.lastSendTime = Small(5)
             /\ conv.lastUpdatedAt = Iso(Num(0, 5000))
             /\ conv.createdAt = Iso(Num(0, 5000))

(***************************************************************************)
(* C23 - Composer message-list selection: the messages that the composer   *)
(* loop stages for a body are those of its `messages` list when that list  *)
(* is present and not empty, and otherwise those of its `conversation`     *)
(* list; a body with an empty `messages` list and a `conversation` list    *)
(* that is not empty stages the messages of `conversation`.                *)
(***************************************************************************)
\* The list the claim selects: the first of the two that is not empty.
FirstNonEmpty(composer) ==
  IF IsArray(composer.messages) /\ composer.messages.a # <<>> THEN composer.messages.a
  ELSE IF IsArray(composer.conversation) THEN composer.conversation.a
  ELSE <<>>

\* A step of the composer loop that did not raise.
ComposerLoopStep == pc = "composers" /\ idx' = idx + 1

C23_MessageListSelection ==
  [][ComposerLoopStep =>
       LET composer == parsedComposers[idx]
       IN GetBubbles(allBubblesMap', composer.composerId)
            = GetBubbles(allBubblesMap, composer.composerId)
                \o ComposerBubbles(FirstNonEmpty(composer))]_vars

(***************************************************************************)
(* The step of the scan on an admitted record with content: the value is   *)
(* an object, the composer id of the key is listed in the index, and the   *)
(* text is not blank.                                                      *)
(***************************************************************************)
AdmittedInkedStep ==
  /\ pc = "scan"
  /\ idx' = idx + 1
  /\ globalRawBubbles[idx].value.k = "obj"
  /\ KeyParts(globalRawBubbles[idx])[2] \in IndexIds
  /\ HasInk(TextContent(globalRawBubbles[idx].value).s)

\* The entry of the composer-metadata index for id: the first that names it.
IndexEntry(id) ==
  LET cs == wsStore.meta.allComposers
  IN cs[CHOOSE j \in 1..Len(cs) :
          cs[j].composerId = id /\ \A m \in 1..(j - 1) : cs[m].composerId # id]

\* The other records of the conversation map are as they were.
OthersKept(id) ==
  \A j \in 1..Len(allConversationsMap) :
    allConversationsMap[j].id # id => allConversationsMap'[j] = allConversationsMap[j]

(***************************************************************************)
(* C24 - Step 3 create-or-refresh, as stated: on an admitted global bubble *)
(* with content, a conversation that does not exist is created with the    *)
(* name of the index entry as title (else "Chat " and the first 8          *)
(* characters of the id) and with each timestamp normalized from the index *)
(* entry when the entry has it (else the current time); of a conversation  *)
(* that exists only lastUpdatedAt changes, to the normalized lastUpdatedAt *)
(* of the index entry when the entry has one.  The timestamps depend on    *)
(* the index entry and the clock alone, never on the bubble record.        *)
(***************************************************************************)
C24_CreateOrRefresh ==
  [][AdmittedInkedStep =>
       LET id == KeyParts(globalRawBubbles[idx])[2]
           entry == IndexEntry(id)
           after == ConvGet(allConversationsMap', id)
       IN /\ OthersKept(id)
          /\ ~ConvHas(allConversationsMap, id) =>
               /\ after.id = id
               /\ after.title = (IF HasText(entry.name) THEN entry.name ELSE ChatTitle(id))
               /\ after.lastUpdatedAt =
                    (IF Present(entry.lastUpdatedAt)
                     THEN safeParseTimestamp(entry.lastUpdatedAt, clock)
                     ELSE Iso(NowMs(clock)))
               /\ after.createdAt =
                    (IF Present(entry.createdAt)
                     THEN safeParseTimestamp(entry.createdAt, clock)
                     ELSE Iso(NowMs(clock)))
          /\ ConvHas(allConversationsMap, id) =>
               after = (IF Present(entry.lastUpdatedAt)
                        THEN [ConvGet(allConversationsMap, id) EXCEPT
                                !.lastUpdatedAt = safeParseTimestamp(entry.lastUpdatedAt, clock)]
                        ELSE ConvGet(allConversationsMap, id))]_vars

(***************************************************************************)
(* C24, amended: the same, a timestamp of the index entry counting only    *)
(* when it is usable (present and not 0, NaN or the empty string): a       *)
(* timestamp of 0 in the index gives the current time to a conversation    *)
(* that is created and leaves the lastUpdatedAt of one that exists as it   *)
(* was.                                                                    *)
(***************************************************************************)
C24_CreateOrRefreshWhenUsable ==
  [][AdmittedInkedStep =>
       LET id == KeyParts(globalRawBubbles[idx])[2]
           entry == IndexEntry(id)
           after == ConvGet(allConversationsMap', id)
       IN /\ OthersKept(id)
          /\ ~ConvHas(allConversationsMap, id) =>
               /\ after.id = id
               /\ after.title = (IF HasText(entry.name) THEN entry.name ELSE ChatTitle(id))
               /\ after.lastUpdatedAt =
                    (IF Usable(entry.lastUpdatedAt)
                     THEN safeParseTimestamp(entry.lastUpdatedAt, clock)
                     ELSE Iso(NowMs(clock)))
               /\ after.createdAt =
                    (IF Usable(entry.createdAt)
                     THEN safeParseTimestamp(entry.createdAt, clock)
                     ELSE Iso(NowMs(clock)))
          /\ ConvHas(allConversationsMap, id) =>
               after = (IF Usable(entry.lastUpdatedAt)
                        THEN [ConvGet(allConversationsMap, id) EXCEPT
                                !.lastUpdatedAt = safeParseTimestamp(entry.lastUpdatedAt, clock)]
                        ELSE ConvGet(allConversationsMap, id))]_vars

\* A run has returned a conversation made of two global bubbles alone: the
\* first created it from an index entry with a creation time of 6 and a
\* lastUpdatedAt of 0, the second found it; its lastUpdatedAt is the current
\* time of the first.
C24_Witness ==
  /\ Returned
  /\ parsedComposers = <<>>
  /\ tabs = <<>>
  /\ composerMetadataForGlobal = <<ComposerMeta(C1, Str(<<>>), Small(6), Small(0))>>
  /\ Len(result) = 1
  /\ result[1].id = C1
  /\ result[1].name = ChatTitle(C1)
  /\ result[1].createdAt = Iso(Num(0, 6000))
  /\ \E t \in 0..MaxClock : result[1].lastUpdatedAt = Iso(NowMs(t))
  /\ Len(result[1].messages) = 2
  /\ \A j \in 1..2 : result[1].messages[j].originalSource = "globalBubble"

(***************************************************************************)
(* What a run on its own returns from the workspace store ws and the       *)
(* global store gs when it reaches its return statement, the global store  *)
(* having been opened or not.                                              *)
(***************************************************************************)
SoloResult(ws, gs, opened) ==
  LET ts == IF ws.chat.k = "json" THEN ws.chat.tabs ELSE <<>>
      ids == IF ws.meta.k = "json"
             THEN {ws.meta.allComposers[j].composerId : j \in 1..Len(ws.meta.allComposers)}
             ELSE {}
      m1 == FoldTabs(NoMaps, ts, 0)
  IN IF HasValue(ws.meta) /\ opened
     THEN ListOf(FoldScan(FoldComposers(m1, SelectIn(gs.bodies, ids), 0),
                          ids, ws.meta.allComposers, gs.bubbles, 0))
     ELSE ListOf(m1)

\* The step in which the run that executes reaches its return statement.
ReturnStep == pc = "finalize" /\ pc' = "closeDb"

(***************************************************************************)
(* C25 - No shared state across runs: when the steps of two runs over      *)
(* unchanging stores are interleaved at their awaits, a run that reaches   *)
(* its return statement returns what a run on its own returns from its     *)
(* stores; a step of one run leaves the locals of the other run (its       *)
(* conversation map, staged messages, order hints and membership set among *)
(* them) as they are, and a switch exchanges the two sets of locals whole. *)
(***************************************************************************)
C25_NoSharedState ==
  [][/\ ReturnStep => result' = SoloResult(wsStore, globalStore, globalDb = "open")
     /\ active' = active => parked' = parked
     /\ active' # active => parked' = CurrentFrame /\ CurrentFrame' = parked]_vars

\* The first run has returned the two conversations of its workspace while
\* the second run, started after it and for another workspace, is suspended
\* before its scan with a conversation record and staged messages of its own.
C25_Witness ==
  /\ active = 1
  /\ Returned
  /\ wsStore = TwinStore
  /\ Len(result) = 2
  /\ result = SoloResult(TwinStore, globalStore, FALSE)
  /\ parked.wsStore = FullStore
  /\ parked.pc = "getScan"
  /\ parked.allConversationsMap # <<>>
  /\ DOMAIN parked.allBubblesMap # {}
  /\ parked.workspaceComposerIds = {C1}

(***************************************************************************)
(* A run of the export route and a request of the query route for the same *)
(* workspace have both ended, both store files exist, every open, query    *)
(* and close of both succeeded, and the clock read the same throughout.    *)
(***************************************************************************)
BothAnswered ==
  /\ Returned
  /\ getResponse # Undef
  /\ getIoOk
  /\ ~StorageRaised
  /\ wsStore.exists
  /\ globalStore.exists
  /\ clock = 0

\* A JSON.parse or a loop of the run raised.
ContentRaised == log \cap {"error:parse", "error:tab", "error:composer"} # {}

StoredTabIds == {StoredTabs[j].tabId : j \in 1..Len(StoredTabs)}

(***************************************************************************)
(* C27 - Output ids come from this workspace: every conversation id in the *)
(* output of a run is the tabId of a legacy chat tab of the workspace      *)
(* store or a member of the workspace-membership set built from the        *)
(* composer-metadata index, whatever composer bodies the batched lookup of *)
(* the global store returns, a body whose embedded composerId differs from *)
(* the key it was fetched by included.                                     *)
(***************************************************************************)
C27_OutputIdsFromWorkspace ==
  Returned => \A j \in 1..Len(result) : result[j].id \in StoredTabIds \cup IndexIds

\* The messages staged for a conversation, in staging order.
Staged(id) == GetBubbles(allBubblesMap, id)
\* staged[j] is the earliest staged copy of its (role, content) pair.
FirstCopy(staged, j) == \A i \in 1..(j - 1) : ~SameMessage(staged[i], staged[j])
\* The conversation has order hints.
HasHints(id) == Has(headerOrderMap, id) /\ DOMAIN headerOrderMap[id] # {}

(***************************************************************************)
(* C28 - Dedup keeps the first-staged copy before hints apply: of the      *)
(* messages staged for a conversation with one (role, content) pair the    *)
(* output holds exactly the earliest staged one, with its own id, type and *)
(* source tag, and the order hint is looked up by the id of that survivor  *)
(* only: a pair staged first under an id without a hint and later under an *)
(* id with a hint comes after every hinted message.                        *)
(***************************************************************************)
C28_FirstCopyBeforeHints ==
  Returned =>
    \A conv \in Range(result) :
      LET staged == Staged(conv.id)
          messages == conv.messages
      IN /\ \A p \in 1..Len(messages) :
              \E j \in 1..Len(staged) :
                FirstCopy(staged, j) /\ messages[p] = staged[j]
         /\ \A j \in 1..Len(staged) :
              FirstCopy(staged, j)
                => Cardinality({p \in 1..Len(messages) :
                                  SameMessage(messages[p], staged[j])}) = 1
         /\ HasHints(conv.id)
              => \A j \in 1..Len(staged) :
                   (FirstCopy(staged, j) /\ ~Hinted(conv.id, staged[j]))
                     => \A p, q \in 1..Len(messages) :
                          (messages[p] = staged[j] /\ Hinted(conv.id, messages[q]))
                            => q < p

\* A pair was staged first under an id without a hint and later under an id
\* with a hint; the first copy is in the output, after a hinted message, and
\* the hinted copy is not.
C28_Witness ==
  /\ Returned
  /\ \E conv \in Range(result) :
       LET staged == Staged(conv.id)
       IN /\ HasHints(conv.id)
          /\ \E j, k \in 1..Len(staged) :
               /\ j < k
               /\ FirstCopy(staged, j)
               /\ SameMessage(staged[j], staged[k])
               /\ ~Hinted(conv.id, staged[j])
               /\ Hinted(conv.id, staged[k])
               /\ staged[k] \notin Range(conv.messages)
               /\ \E p, q \in 1..Len(conv.messages) :
                    /\ q < p
                    /\ conv.messages[p] = staged[j]
                    /\ Hinted(conv.id, conv.messages[q])

====
